---- MODULE Spec2Model ----
(***************************************************************************)
(* A model of rconntrack: the ctnetlink transport (NfConntrackSocket and   *)
(* the mock transport), the request builder, the Conntrack engine, the     *)
(* flow decoder and the flow filter.                                       *)
(*                                                                         *)
(* Conventions.  Option<T> is a sequence of length 0 (None) or 1 (Some).   *)
(* Result<T, E> is a record [ok, val, err] whose val is an Option.  Every  *)
(* error is a record [e, k, arg, code]: e the variant of conntrack::Error, *)
(* k the inner variant, arg its string argument, code its integer.         *)
(***************************************************************************)
EXTENDS Integers, Sequences, FiniteSets, TLC

None == <<>>
Some(v) == <<v>>
IsSome(o) == Len(o) = 1
IsNone(o) == Len(o) = 0
Unwrap(o) == o[1]

NoErr == [e |-> "", k |-> "", arg |-> "", code |-> 0]
MkErr(e, k, arg, code) == [e |-> e, k |-> k, arg |-> arg, code |-> code]
Ok(v) == [ok |-> TRUE, val |-> <<v>>, err |-> NoErr]
Err(x) == [ok |-> FALSE, val |-> <<>>, err |-> x]

RECURSIVE BitAnd(_, _)
BitAnd(a, b) ==
  IF a = 0 \/ b = 0 THEN 0
  ELSE (a % 2) * (b % 2) + 2 * BitAnd(a \div 2, b \div 2)

RECURSIVE BitOr(_, _)
BitOr(a, b) ==
  IF a = 0 THEN b
  ELSE IF b = 0 THEN a
  ELSE (IF a % 2 = 1 \/ b % 2 = 1 THEN 1 ELSE 0) + 2 * BitOr(a \div 2, b \div 2)

RECURSIVE Pow2(_)
Pow2(n) == IF n = 0 THEN 1 ELSE 2 * Pow2(n - 1)

Min(a, b) == IF a < b THEN a ELSE b
Max(a, b) == IF a > b THEN a ELSE b

(***************************************************************************)
(* Netlink constants (netlink_packet_core / linux/netlink.h).              *)
(***************************************************************************)
NLM_F_REQUEST == 1
NLM_F_ROOT == 256
NLM_F_MATCH == 512
NLM_F_DUMP == BitOr(NLM_F_ROOT, NLM_F_MATCH)
NLM_F_CREATE == 1024
NFNETLINK_V0 == 0
AF_UNSPEC == 0
AF_INET == 2
AF_INET6 == 10

(***************************************************************************)
(* conntrack::Family and conntrack::Table (lib.rs).                        *)
(***************************************************************************)
Families == {"Unspec", "Ipv4", "Ipv6"}
Tables == {"Conntrack", "Dying", "Unconfirmed"}

\* impl From<Family> for u8
FamilyToU8(f) ==
  CASE f = "Ipv4" -> AF_INET
    [] f = "Ipv6" -> AF_INET6
    [] OTHER -> AF_UNSPEC

(***************************************************************************)
(* IP addresses: [v |-> 4 | 6, o |-> the octets].  A CIDR (ipnet::IpNet)   *)
(* is [addr, prefix].                                                      *)
(***************************************************************************)
V4(a, b, c, d) == [v |-> 4, o |-> <<a, b, c, d>>]
V6(hi, lo) == [v |-> 6, o |-> <<hi, 0, 0, 0, 0, 0, 0, 0, 0, 0, 0, 0, 0, 0, 0, lo>>]
Cidr(addr, prefix) == [addr |-> addr, prefix |-> prefix]
\* a bare address is a host-prefixed net (parse_addr_or_cidr)
HostCidr(addr) == Cidr(addr, IF addr.v = 4 THEN 32 ELSE 128)

\* a contains that leaves out the address the net is written with
CidrContainsExclusive(cidr, addr) ==
  /\ cidr.addr.v = addr.v
  /\ cidr.addr # addr
  /\ \A i \in 1..Len(addr.o) :
       LET k == Max(0, Min(8, cidr.prefix - 8 * (i - 1)))
           sh == Pow2(8 - k)
       IN  (cidr.addr.o[i] \div sh) = (addr.o[i] \div sh)

\* IpNet::contains(&IpAddr): network() <= addr <= broadcast(), false across
\* address families; that is, the first `prefix` bits agree.
CidrContains(cidr, addr) ==
  /\ cidr.addr.v = addr.v
  /\ \A i \in 1..Len(addr.o) :
       LET k == Max(0, Min(8, cidr.prefix - 8 * (i - 1)))
           sh == Pow2(8 - k)
       IN  (cidr.addr.o[i] \div sh) = (addr.o[i] \div sh)

IsIpv4(addr) == addr.v = 4
IsIpv6(addr) == addr.v = 6

\* Family::is_matched
FamilyIsMatched(f, addr) ==
  CASE f = "Unspec" -> TRUE
    [] f = "Ipv4" -> IsIpv4(addr)
    [] OTHER -> IsIpv6(addr)

(***************************************************************************)
(* flow.rs: Protocol, TcpState, Status.                                    *)
(***************************************************************************)
ProtoTcp == [kind |-> "Tcp", num |-> 6]
ProtoUdp == [kind |-> "Udp", num |-> 17]
ProtoOther(v) == [kind |-> "Other", num |-> v]

\* impl From<u8> for Protocol
ProtocolFromU8(v) ==
  IF v = 6 THEN ProtoTcp ELSE IF v = 17 THEN ProtoUdp ELSE ProtoOther(v)

\* impl From<Protocol> for u8
ProtocolToU8(p) ==
  CASE p.kind = "Tcp" -> 6
    [] p.kind = "Udp" -> 17
    [] OTHER -> p.num

TcpStates ==
  <<"None", "SynSent", "SynRecv", "Established", "FinWait", "CloseWait",
    "LastAck", "TimeWait", "Close", "Listen">>

\* impl TryFrom<u8> for TcpState
TcpStateTryFromU8(s) ==
  IF s \in 0..9 THEN Ok(TcpStates[s + 1])
  ELSE Err(MkErr("Flow", "InvalidTcpState", "", s))

\* impl From<TcpState> for u8
TcpStateToU8(st) == (CHOOSE i \in 1..10 : TcpStates[i] = st) - 1

\* FLAGS: the 15 ConnectionStatusFlag values are the bits 0..14; a Status
\* (a HashSet of flags) is the set of its bit positions.
NumStatusFlags == 15
FlagExpected == 0
FlagSeenReply == 1
FlagAssured == 2
FlagSourceNATDone == 7

RECURSIVE SumPow2(_)
SumPow2(S) ==
  IF S = {} THEN 0
  ELSE LET x == CHOOSE y \in S : TRUE IN Pow2(x) + SumPow2(S \ {x})

\* impl From<&Status> for u16
StatusToU16(status) == SumPow2(status)

\* a conversion that keeps the bit above the 15 defined flags as a flag
StatusFromU16KeepUnknown(value) ==
  {i \in 0..NumStatusFlags : BitAnd(value, Pow2(i)) # 0}

\* impl From<u16> for Status
StatusFromU16(value) ==
  {i \in 0..(NumStatusFlags - 1) : BitAnd(value, Pow2(i)) # 0}

\* impl From<&ConnectionStatus> for Status (the attribute is a u32)
StatusFromConnectionStatus(s) ==
  {i \in 0..(NumStatusFlags - 1) : BitAnd(s, Pow2(i)) # 0}

StatusAssured == {FlagAssured}
StatusSeenReply == {FlagSeenReply}

(***************************************************************************)
(* flow.rs: Tuple, Flow and their builders.                                *)
(***************************************************************************)
Tuple(sa, da, sp, dp) ==
  [src_addr |-> sa, dst_addr |-> da, src_port |-> sp, dst_port |-> dp]

TupleBuilderDefault ==
  [src_addr |-> None, dst_addr |-> None, src_port |-> None, dst_port |-> None]

\* TupleBuilder::build: the first missing field, in declaration order, is
\* reported.
TupleBuilderBuild(tb) ==
  IF IsNone(tb.src_addr) THEN Err(MkErr("Flow", "MissingField", "src_addr", 0))
  ELSE IF IsNone(tb.dst_addr) THEN Err(MkErr("Flow", "MissingField", "dst_addr", 0))
  ELSE IF IsNone(tb.src_port) THEN Err(MkErr("Flow", "MissingField", "src_port", 0))
  ELSE IF IsNone(tb.dst_port) THEN Err(MkErr("Flow", "MissingField", "dst_port", 0))
  ELSE Ok(Tuple(Unwrap(tb.src_addr), Unwrap(tb.dst_addr),
                Unwrap(tb.src_port), Unwrap(tb.dst_port)))

FlowBuilderDefault ==
  [original |-> None, reply |-> None, protocol |-> None, mark |-> None,
   use |-> None, tcp_state |-> None, status |-> None, timeout |-> None]

\* a build that takes a missing mark for the mark 0
FlowBuilderBuildDefaultMark(fb) ==
  IF IsNone(fb.original) THEN Err(MkErr("Flow", "MissingField", "original", 0))
  ELSE IF IsNone(fb.reply) THEN Err(MkErr("Flow", "MissingField", "reply", 0))
  ELSE IF IsNone(fb.protocol) THEN Err(MkErr("Flow", "MissingField", "protocol", 0))
  ELSE IF IsNone(fb.use) THEN Err(MkErr("Flow", "MissingField", "use", 0))
  ELSE IF IsNone(fb.status) THEN Err(MkErr("Flow", "MissingField", "status", 0))
  ELSE IF IsNone(fb.timeout) THEN Err(MkErr("Flow", "MissingField", "timeout", 0))
  ELSE Ok([original |-> Unwrap(fb.original), reply |-> Unwrap(fb.reply),
           protocol |-> Unwrap(fb.protocol),
           mark |-> IF IsNone(fb.mark) THEN 0 ELSE Unwrap(fb.mark),
           use |-> Unwrap(fb.use),
           tcp_state |-> fb.tcp_state, status |-> Unwrap(fb.status),
           timeout |-> Unwrap(fb.timeout)])

\* FlowBuilder::build (flow.rs 235-263): the first missing field, in the
\* order of the struct literal, is reported; tcp_state is copied as it is.
\* The Flow of flow.rs 34-44 holds mark and use as numbers.
FlowBuilderBuild(fb) ==
  IF IsNone(fb.original) THEN Err(MkErr("Flow", "MissingField", "original", 0))
  ELSE IF IsNone(fb.reply) THEN Err(MkErr("Flow", "MissingField", "reply", 0))
  ELSE IF IsNone(fb.protocol) THEN Err(MkErr("Flow", "MissingField", "protocol", 0))
  ELSE IF IsNone(fb.mark) THEN Err(MkErr("Flow", "MissingField", "mark", 0))
  ELSE IF IsNone(fb.use) THEN Err(MkErr("Flow", "MissingField", "use", 0))
  ELSE IF IsNone(fb.status) THEN Err(MkErr("Flow", "MissingField", "status", 0))
  ELSE IF IsNone(fb.timeout) THEN Err(MkErr("Flow", "MissingField", "timeout", 0))
  ELSE Ok([original |-> Unwrap(fb.original), reply |-> Unwrap(fb.reply),
           protocol |-> Unwrap(fb.protocol), mark |-> Unwrap(fb.mark),
           use |-> Unwrap(fb.use),
           tcp_state |-> fb.tcp_state, status |-> Unwrap(fb.status),
           timeout |-> Unwrap(fb.timeout)])

(***************************************************************************)
(* Attributes of a ctnetlink message.  TupleNla is                         *)
(*   [t |-> "Ip", src_addr, dst_addr] or                                   *)
(*   [t |-> "Protocol", src_port, dst_port, protocol];                     *)
(* FlowNla is [t, tuple, info, num]: t names the variant, tuple the        *)
(* nested TupleNla list (Orig, Reply), info the ProtocolInfo               *)
(* ([kind |-> "Tcp" | "Other", state]), num the number (Mark, Use,         *)
(* Timeout, Status, Id).                                                   *)
(***************************************************************************)
NlaIp(sa, da) == [t |-> "Ip", src_addr |-> sa, dst_addr |-> da]
NlaProto(sp, dp, p) ==
  [t |-> "Protocol", src_port |-> sp, dst_port |-> dp, protocol |-> p]
InfoNone == [kind |-> "", state |-> 0]
InfoTcp(st) == [kind |-> "Tcp", state |-> st]
InfoOther == [kind |-> "Other", state |-> 0]
MkNla(t, tuple, info, num) == [t |-> t, tuple |-> tuple, info |-> info, num |-> num]
NlaOrig(tn) == MkNla("Orig", tn, InfoNone, 0)
NlaReply(tn) == MkNla("Reply", tn, InfoNone, 0)
NlaProtocolInfo(i) == MkNla("ProtocolInfo", <<>>, i, 0)
NlaMark(v) == MkNla("Mark", <<>>, InfoNone, v)
NlaUse(v) == MkNla("Use", <<>>, InfoNone, v)
NlaTimeout(v) == MkNla("Timeout", <<>>, InfoNone, v)
NlaStatus(v) == MkNla("Status", <<>>, InfoNone, v)
NlaId(v) == MkNla("Id", <<>>, InfoNone, v)
NlaOther == MkNla("Other", <<>>, InfoNone, 0)

\* the inner loops over a tuple group (flow.rs 57-68 and 73-86)
RECURSIVE TupleFromNlas(_, _, _)
TupleFromNlas(tn, i, tb) ==
  IF i > Len(tn) THEN tb
  ELSE TupleFromNlas(tn, i + 1,
         IF tn[i].t = "Ip"
         THEN [tb EXCEPT !.src_addr = Some(tn[i].src_addr),
                         !.dst_addr = Some(tn[i].dst_addr)]
         ELSE [tb EXCEPT !.src_port = Some(tn[i].src_port),
                         !.dst_port = Some(tn[i].dst_port)])

\* the protocol a Reply group sets: that of its last Protocol attribute
RECURSIVE ReplyProtocol(_, _, _)
ReplyProtocol(tn, i, cur) ==
  IF i > Len(tn) THEN cur
  ELSE ReplyProtocol(tn, i + 1,
         IF tn[i].t = "Protocol" THEN Some(ProtocolFromU8(tn[i].protocol)) ELSE cur)

\* one iteration of the loop over the top-level attributes: Ok(builder) or
\* the error of the `?` that leaves the function
FlowNlaStep(fb, nla) ==
  CASE nla.t = "Orig" ->
         LET r == TupleBuilderBuild(TupleFromNlas(nla.tuple, 1, TupleBuilderDefault))
         IN  IF r.ok THEN Ok([fb EXCEPT !.original = r.val]) ELSE Err(r.err)
    [] nla.t = "Reply" ->
         LET fb1 == [fb EXCEPT !.protocol = ReplyProtocol(nla.tuple, 1, fb.protocol)]
             r == TupleBuilderBuild(TupleFromNlas(nla.tuple, 1, TupleBuilderDefault))
         IN  IF r.ok THEN Ok([fb1 EXCEPT !.reply = r.val]) ELSE Err(r.err)
    [] nla.t = "ProtocolInfo" ->
         IF nla.info.kind = "Tcp"
         THEN LET s == TcpStateTryFromU8(nla.info.state)
              IN  IF s.ok THEN Ok([fb EXCEPT !.tcp_state = s.val]) ELSE Err(s.err)
         ELSE Ok(fb)
    [] nla.t = "Mark" -> Ok([fb EXCEPT !.mark = Some(nla.num)])
    [] nla.t = "Use" -> Ok([fb EXCEPT !.use = Some(nla.num)])
    [] nla.t = "Timeout" -> Ok([fb EXCEPT !.timeout = Some(nla.num)])
    [] nla.t = "Status" ->
         Ok([fb EXCEPT !.status = Some(StatusFromConnectionStatus(nla.num))])
    [] OTHER -> Ok(fb)

\* the loop over the top-level attributes (flow.rs 52-103), which is the
\* FlowBuilder::try_from(nlas) that event.rs calls
RECURSIVE FlowBuilderFromNlas(_, _, _)
FlowBuilderFromNlas(nlas, i, fb) ==
  IF i > Len(nlas) THEN Ok(fb)
  ELSE LET r == FlowNlaStep(fb, nlas[i])
       IN  IF r.ok THEN FlowBuilderFromNlas(nlas, i + 1, Unwrap(r.val)) ELSE r

FlowBuilderTryFrom(nlas) == FlowBuilderFromNlas(nlas, 1, FlowBuilderDefault)

\* a serializer that writes the original tuple in the reply attribute too
FlowToNlasOneTuple(flow) ==
  << NlaOrig(<< NlaIp(flow.original.src_addr, flow.original.dst_addr),
                NlaProto(flow.original.src_port, flow.original.dst_port,
                         ProtocolToU8(flow.protocol)) >>),
     NlaReply(<< NlaIp(flow.original.src_addr, flow.original.dst_addr),
                 NlaProto(flow.original.src_port, flow.original.dst_port,
                          ProtocolToU8(flow.protocol)) >>),
     NlaProtocolInfo(IF flow.protocol.kind = "Tcp"
                     THEN InfoTcp(TcpStateToU8(Unwrap(flow.tcp_state)))
                     ELSE InfoOther),
     NlaMark(flow.mark),
     NlaUse(flow.use),
     NlaTimeout(flow.timeout),
     NlaStatus(StatusToU16(flow.status)),
     NlaId(0) >>

\* impl TryFrom<&Flow> for CtNetlinkMessage: the attribute list of the New
\* message built from a flow (used by MockConntrackSocket::with_flow)
FlowToNlas(flow) ==
  << NlaOrig(<< NlaIp(flow.original.src_addr, flow.original.dst_addr),
                NlaProto(flow.original.src_port, flow.original.dst_port,
                         ProtocolToU8(flow.protocol)) >>),
     NlaReply(<< NlaIp(flow.reply.src_addr, flow.reply.dst_addr),
                 NlaProto(flow.reply.src_port, flow.reply.dst_port,
                          ProtocolToU8(flow.protocol)) >>),
     NlaProtocolInfo(IF flow.protocol.kind = "Tcp"
                     THEN InfoTcp(TcpStateToU8(Unwrap(flow.tcp_state)))
                     ELSE InfoOther),
     NlaMark(flow.mark),
     NlaUse(flow.use),
     NlaTimeout(flow.timeout),
     NlaStatus(StatusToU16(flow.status)),
     NlaId(0) >>

(***************************************************************************)
(* request.rs: Filter.                                                     *)
(***************************************************************************)
FilterDefault ==
  [family |-> None, protocol |-> None,
   orig_src_addr |-> None, orig_dst_addr |-> None,
   reply_src_addr |-> None, reply_dst_addr |-> None,
   orig_src_port |-> None, orig_dst_port |-> None,
   reply_src_port |-> None, reply_dst_port |-> None,
   mark |-> None, use |-> None, tcp_state |-> None, status |-> None]

\* a status test that asks for every flag of the filter
StatusMatchesAll(filter_status, flow_status) ==
  BitAnd(StatusToU16(flow_status), StatusToU16(filter_status)) = StatusToU16(filter_status)

\* the status test of Filter::apply (request.rs 283-289)
StatusMatches(filter_status, flow_status) ==
  BitAnd(StatusToU16(flow_status), StatusToU16(filter_status)) # 0

\* the field tests of apply, restated for the two variants that follow
FilterFieldsPass(filter, flow) ==
  /\ IsSome(filter.family) =>
       FamilyIsMatched(Unwrap(filter.family), flow.original.src_addr)
  /\ IsSome(filter.protocol) => Unwrap(filter.protocol) = flow.protocol
  /\ IsSome(filter.tcp_state) =>
       (IsSome(flow.tcp_state) /\ Unwrap(filter.tcp_state) = Unwrap(flow.tcp_state))
  /\ IsSome(filter.orig_src_addr) =>
       CidrContains(Unwrap(filter.orig_src_addr), flow.original.src_addr)
  /\ IsSome(filter.orig_dst_addr) =>
       CidrContains(Unwrap(filter.orig_dst_addr), flow.original.dst_addr)
  /\ IsSome(filter.reply_src_addr) =>
       CidrContains(Unwrap(filter.reply_src_addr), flow.reply.src_addr)
  /\ IsSome(filter.reply_dst_addr) =>
       CidrContains(Unwrap(filter.reply_dst_addr), flow.reply.dst_addr)
  /\ IsSome(filter.orig_src_port) =>
       Unwrap(filter.orig_src_port) = flow.original.src_port
  /\ IsSome(filter.orig_dst_port) =>
       Unwrap(filter.orig_dst_port) = flow.original.dst_port
  /\ IsSome(filter.reply_src_port) =>
       Unwrap(filter.reply_src_port) = flow.reply.src_port
  /\ IsSome(filter.reply_dst_port) =>
       Unwrap(filter.reply_dst_port) = flow.reply.dst_port
  /\ IsSome(filter.mark) =>
       (IsSome(flow.mark) /\ Unwrap(filter.mark) = Unwrap(flow.mark))
  /\ IsSome(filter.use) =>
       (IsSome(flow.use) /\ Unwrap(filter.use) = Unwrap(flow.use))
  /\ IsSome(filter.status) =>
       StatusMatches(Unwrap(filter.status), flow.status)

\* an apply that accepts as soon as the protocol agrees
FilterApplyAcceptsOnProtocol(filter, flow) ==
  IF IsSome(filter.protocol) /\ Unwrap(filter.protocol) = flow.protocol
  THEN IsSome(filter.family) =>
         FamilyIsMatched(Unwrap(filter.family), flow.original.src_addr)
  ELSE FilterFieldsPass(filter, flow)

\* an apply that does not test the TCP state of a flow that has none
FilterApplySkipsStateless(filter, flow) ==
  FilterFieldsPass(IF IsNone(flow.tcp_state) THEN [filter EXCEPT !.tcp_state = None]
                   ELSE filter, flow)

\* Filter::apply: each `return false` is one failed conjunct
FilterApply(filter, flow) ==
  /\ IsSome(filter.family) =>
       FamilyIsMatched(Unwrap(filter.family), flow.original.src_addr)
  /\ IsSome(filter.protocol) => Unwrap(filter.protocol) = flow.protocol
  /\ IsSome(filter.tcp_state) =>
       (IsSome(flow.tcp_state) /\ Unwrap(filter.tcp_state) = Unwrap(flow.tcp_state))
  /\ IsSome(filter.orig_src_addr) =>
       CidrContains(Unwrap(filter.orig_src_addr), flow.original.src_addr)
  /\ IsSome(filter.orig_dst_addr) =>
       CidrContains(Unwrap(filter.orig_dst_addr), flow.original.dst_addr)
  /\ IsSome(filter.reply_src_addr) =>
       CidrContains(Unwrap(filter.reply_src_addr), flow.reply.src_addr)
  /\ IsSome(filter.reply_dst_addr) =>
       CidrContains(Unwrap(filter.reply_dst_addr), flow.reply.dst_addr)
  /\ IsSome(filter.orig_src_port) =>
       Unwrap(filter.orig_src_port) = flow.original.src_port
  /\ IsSome(filter.orig_dst_port) =>
       Unwrap(filter.orig_dst_port) = flow.original.dst_port
  /\ IsSome(filter.reply_src_port) =>
       Unwrap(filter.reply_src_port) = flow.reply.src_port
  /\ IsSome(filter.reply_dst_port) =>
       Unwrap(filter.reply_dst_port) = flow.reply.dst_port
  /\ IsSome(filter.mark) =>
       (IsSome(flow.mark) /\ Unwrap(filter.mark) = Unwrap(flow.mark))
  /\ IsSome(filter.use) =>
       (IsSome(flow.use) /\ Unwrap(filter.use) = Unwrap(flow.use))
  /\ IsSome(filter.status) =>
       StatusMatches(Unwrap(filter.status), flow.status)

(***************************************************************************)
(* message.rs: the Message envelope, MessageType, MessageGroup, and the    *)
(* MessageBuilder.  An inner ctnetlink message is [type, nlas]: nlas is    *)
(* the Option<Vec<..>> of the Get* variants and Some(list) for New/Delete. *)
(***************************************************************************)
CtMsg(type, nlas) == [type |-> type, nlas |-> nlas]
Message(msg, flag, res_id) == [flag |-> flag, res_id |-> res_id, msg |-> msg]

\* enum MessageType { New = 1, Update = 2, Destroy = 4 }
MessageTypeNew == 1
MessageTypeUpdate == 2
MessageTypeDestroy == 4

\* impl Default for MessageGroup
MessageGroupDefault == MessageTypeNew
\* a set that replaces the mask by the new group
MessageGroupSetOverwrite(g, t) == t
\* MessageGroup::set
MessageGroupSet(g, t) == BitOr(g, t)

\* a NetlinkMessage<NetfilterMessage> as built for sending: the outer flag
\* word, the netfilter header and the inner ctnetlink message
NetlinkMessageNew(flags, family, res_id, inner) ==
  [flags |-> flags,
   header |-> [family |-> family, version |-> NFNETLINK_V0, res_id |-> res_id],
   inner |-> inner]

\* NetlinkHeader::default().flags, which NetlinkMessage::from(payload) uses
NetlinkHeaderDefaultFlags == 0

\* MessageBuilder::new
MessageBuilderNew(family, table) ==
  [family |-> family, table |-> table, res_id |-> 0, flag |-> NLM_F_REQUEST,
   zero |-> FALSE]

\* a list that resets the counters of the Conntrack table only
MessageBuilderListTableFirst(b) ==
  LET flags == BitOr(b.flag, NLM_F_DUMP) IN
  CASE b.table = "Dying" ->
         NetlinkMessageNew(flags, FamilyToU8(b.family), b.res_id, CtMsg("GetDying", None))
    [] b.table = "Unconfirmed" ->
         NetlinkMessageNew(flags, FamilyToU8(b.family), b.res_id,
                           CtMsg("GetUnconfirmed", None))
    [] OTHER ->
         NetlinkMessageNew(flags, FamilyToU8(b.family), b.res_id,
                           CtMsg(IF b.zero THEN "GetCrtZero" ELSE "Get", None))

\* MessageBuilder::list
MessageBuilderList(b) ==
  LET flags == BitOr(b.flag, NLM_F_DUMP) IN
  IF b.zero
  THEN NetlinkMessageNew(flags, FamilyToU8(b.family), b.res_id, CtMsg("GetCrtZero", None))
  ELSE CASE b.table = "Conntrack" ->
              NetlinkMessageNew(flags, FamilyToU8(b.family), b.res_id, CtMsg("Get", None))
         [] b.table = "Dying" ->
              NetlinkMessageNew(flags, FamilyToU8(b.family), b.res_id, CtMsg("GetDying", None))
         [] OTHER ->
              NetlinkMessageNew(flags, FamilyToU8(b.family), b.res_id,
                                CtMsg("GetUnconfirmed", None))

\* impl From<&GetParams> for Vec<FlowNla>: param is [protocol, directed_tuple]
\* and directed_tuple is [dir |-> "Orig" | "Reply", tuple]
GetParamsToNlas(param) ==
  LET tuple == param.directed_tuple.tuple
      protocol == NlaProto(tuple.src_port, tuple.dst_port, ProtocolToU8(param.protocol))
      addrs == NlaIp(tuple.src_addr, tuple.dst_addr)
  IN  IF param.directed_tuple.dir = "Orig"
      THEN << NlaOrig(<<addrs, protocol>>) >>
      ELSE << NlaReply(<<addrs, protocol>>) >>

\* MessageBuilder::get: the Dying and Unconfirmed arms build the frame with
\* NetlinkMessage::from, whose header is the default one, not hdr
MessageBuilderGet(b, param) ==
  LET nlas == GetParamsToNlas(param) IN
  CASE b.table = "Conntrack" ->
         NetlinkMessageNew(b.flag, FamilyToU8(b.family), b.res_id, CtMsg("Get", Some(nlas)))
    [] b.table = "Dying" ->
         NetlinkMessageNew(NetlinkHeaderDefaultFlags, FamilyToU8(b.family), b.res_id,
                           CtMsg("GetDying", Some(nlas)))
    [] OTHER ->
         NetlinkMessageNew(NetlinkHeaderDefaultFlags, FamilyToU8(b.family), b.res_id,
                           CtMsg("GetUnconfirmed", Some(nlas)))

\* MessageBuilder::count
MessageBuilderCount(b) ==
  NetlinkMessageNew(b.flag, FamilyToU8(b.family), 0, CtMsg("GetStats", None))

\* MessageBuilder::stat
MessageBuilderStat(b) ==
  NetlinkMessageNew(BitOr(BitOr(b.flag, NLM_F_ROOT), NLM_F_MATCH),
                    FamilyToU8(b.family), 0, CtMsg("GetStatsCPU", None))

(***************************************************************************)
(* request.rs: Request = [meta, op]; meta = [family, table, res_id, zero]; *)
(* op = [type, filter, param] with filter an Option<Filter> (List, Event)  *)
(* and param an Option<GetParams> (Get).                                   *)
(***************************************************************************)
RequestMeta(family, table, res_id, zero) ==
  [family |-> family, table |-> table, res_id |-> res_id, zero |-> zero]
OpList(f) == [type |-> "List", filter |-> f, param |-> None]
OpGet(p) == [type |-> "Get", filter |-> None, param |-> Some(p)]
OpEvent(f) == [type |-> "Event", filter |-> f, param |-> None]
OpCount == [type |-> "Count", filter |-> None, param |-> None]
OpStat == [type |-> "Stat", filter |-> None, param |-> None]
RequestNew(meta, op) == [meta |-> meta, op |-> op]
GetParamsNew(protocol, directed_tuple) ==
  [protocol |-> protocol, directed_tuple |-> directed_tuple]

\* impl From<&RequestMeta> for MessageBuilder
MessageBuilderFromMeta(r) ==
  [MessageBuilderNew(r.family, r.table) EXCEPT !.res_id = r.res_id, !.zero = r.zero]

\* Request::message: the Option of the frame (the Result is always Ok)
RequestMessage(req) ==
  LET builder == MessageBuilderFromMeta(req.meta) IN
  CASE req.op.type = "List" -> Some(MessageBuilderList(builder))
    [] req.op.type = "Get" -> Some(MessageBuilderGet(builder, Unwrap(req.op.param)))
    [] req.op.type = "Event" -> None
    [] req.op.type = "Count" -> Some(MessageBuilderCount(builder))
    [] OTHER -> Some(MessageBuilderStat(builder))

\* a filter() that gives the filter of a List only
RequestOperationFilterOfList(op) ==
  CASE op.type = "List" -> op.filter
    [] OTHER -> None

\* RequestOperation::filter
RequestOperationFilter(op) ==
  CASE op.type = "List" -> op.filter
    [] op.type = "Event" -> op.filter
    [] OTHER -> None

\* Request::filter
RequestFilter(req) == RequestOperationFilter(req.op)

(***************************************************************************)
(* stats.rs and event.rs.  A StatNla is [t, v].  An Event is               *)
(* [ev |-> "Flow" | "Count" | "Stats", flow, count, stats].                *)
(***************************************************************************)
StatNla(t, v) == [t |-> t, v |-> v]
StatsDefault(cpu) ==
  [cpu |-> cpu, found |-> 0, invalid |-> 0, insert |-> 0, insert_failed |-> 0,
   drop |-> 0, early_drop |-> 0, error |-> 0, search_restart |-> 0,
   clash_resolve |-> 0, chain_too_long |-> 0]

\* Stats::from_nlas: the deprecated attributes and Other change nothing
RECURSIVE StatsFromNlas(_, _, _)
StatsFromNlas(nlas, i, st) ==
  IF i > Len(nlas) THEN st
  ELSE LET n == nlas[i] IN
       StatsFromNlas(nlas, i + 1,
         CASE n.t = "Found" -> [st EXCEPT !.found = n.v]
           [] n.t = "Invalid" -> [st EXCEPT !.invalid = n.v]
           [] n.t = "Insert" -> [st EXCEPT !.insert = n.v]
           [] n.t = "InsertFailed" -> [st EXCEPT !.insert_failed = n.v]
           [] n.t = "Drop" -> [st EXCEPT !.drop = n.v]
           [] n.t = "EarlyDrop" -> [st EXCEPT !.early_drop = n.v]
           [] n.t = "Error" -> [st EXCEPT !.error = n.v]
           [] n.t = "SearchRestart" -> [st EXCEPT !.search_restart = n.v]
           [] n.t = "ClashResolve" -> [st EXCEPT !.clash_resolve = n.v]
           [] n.t = "ChainTooLong" -> [st EXCEPT !.chain_too_long = n.v]
           [] OTHER -> st)

\* The Flow that event.rs hands on: the Flow of FlowBuilder::build with the
\* event kind given to event_type() (event.rs 25-29 and 36), and with mark
\* and use as the Option values that Filter::apply (request.rs 263-282)
\* matches on.
FlowWithEventType(f, et) ==
  [original |-> f.original, reply |-> f.reply, protocol |-> f.protocol,
   mark |-> Some(f.mark), use |-> Some(f.use), tcp_state |-> f.tcp_state,
   status |-> f.status, timeout |-> f.timeout, event_type |-> et]

EventFlow(f) == [ev |-> "Flow", flow |-> Some(f), count |-> 0, stats |-> None]
EventCount(c) == [ev |-> "Count", flow |-> None, count |-> c, stats |-> None]
EventStats(s) == [ev |-> "Stats", flow |-> None, count |-> 0, stats |-> Some(s)]

\* find_map over the stat attributes for the first Searched
RECURSIVE FindSearched(_, _)
FindSearched(nlas, i) ==
  IF i > Len(nlas) THEN None
  ELSE IF nlas[i].t = "Searched" THEN Some(nlas[i].v)
  ELSE FindSearched(nlas, i + 1)

\* a conversion that lets the create bit decide the kind of a Delete too
EventTryFromCreateFirst(m) ==
  CASE m.msg.type \in {"New", "Delete"} ->
         LET b == FlowBuilderTryFrom(Unwrap(m.msg.nlas)) IN
         IF ~b.ok THEN Err(b.err)
         ELSE LET et == IF BitAnd(m.flag, NLM_F_CREATE) # 0 THEN MessageTypeNew
                        ELSE IF m.msg.type = "Delete" THEN MessageTypeDestroy
                        ELSE MessageTypeUpdate
                  f == FlowBuilderBuild(Unwrap(b.val))
              IN  IF f.ok THEN Ok(EventFlow(FlowWithEventType(Unwrap(f.val), et)))
                  ELSE Err(f.err)
    [] m.msg.type = "GetStats" /\ IsSome(m.msg.nlas) ->
         LET c == FindSearched(Unwrap(m.msg.nlas), 1) IN
         IF IsSome(c) THEN Ok(EventCount(Unwrap(c)))
         ELSE Err(MkErr("Message", "", "failed to get the counter", 0))
    [] m.msg.type = "GetStatsCPU" /\ IsSome(m.msg.nlas) ->
         Ok(EventStats(StatsFromNlas(Unwrap(m.msg.nlas), 1, StatsDefault(m.res_id))))
    [] OTHER -> Err(MkErr("Message", "", "unknown message type", 0))

\* impl TryFrom<&Message> for Event
EventTryFrom(m) ==
  CASE m.msg.type = "New" ->
         LET b == FlowBuilderTryFrom(Unwrap(m.msg.nlas)) IN
         IF ~b.ok THEN Err(b.err)
         ELSE LET et == IF BitAnd(m.flag, NLM_F_CREATE) # 0
                        THEN MessageTypeNew ELSE MessageTypeUpdate
                  f == FlowBuilderBuild(Unwrap(b.val))
              IN  IF f.ok THEN Ok(EventFlow(FlowWithEventType(Unwrap(f.val), et)))
                  ELSE Err(f.err)
    [] m.msg.type = "Delete" ->
         LET b == FlowBuilderTryFrom(Unwrap(m.msg.nlas)) IN
         IF ~b.ok THEN Err(b.err)
         ELSE LET f == FlowBuilderBuild(Unwrap(b.val))
              IN  IF f.ok
                  THEN Ok(EventFlow(FlowWithEventType(Unwrap(f.val), MessageTypeDestroy)))
                  ELSE Err(f.err)
    [] m.msg.type = "GetStats" /\ IsSome(m.msg.nlas) ->
         LET c == FindSearched(Unwrap(m.msg.nlas), 1) IN
         IF IsSome(c) THEN Ok(EventCount(Unwrap(c)))
         ELSE Err(MkErr("Message", "", "failed to get the counter", 0))
    [] m.msg.type = "GetStatsCPU" /\ IsSome(m.msg.nlas) ->
         Ok(EventStats(StatsFromNlas(Unwrap(m.msg.nlas), 1, StatsDefault(m.res_id))))
    [] OTHER -> Err(MkErr("Message", "", "unknown message type", 0))

\* a collect that leaves out the envelopes whose conversion fails
RECURSIVE EventsTryFromSkipBad(_, _, _)
EventsTryFromSkipBad(msgs, i, acc) ==
  IF i > Len(msgs) THEN Ok(acc)
  ELSE LET r == EventTryFrom(msgs[i])
       IN  EventsTryFromSkipBad(msgs, i + 1,
                                IF r.ok THEN Append(acc, Unwrap(r.val)) ELSE acc)

\* msgs.iter().map(Event::try_from).collect::<Result<Vec<_>, _>>(): the
\* events of all the envelopes, or the first error
RECURSIVE EventsTryFrom(_, _, _)
EventsTryFrom(msgs, i, acc) ==
  IF i > Len(msgs) THEN Ok(acc)
  ELSE LET r == EventTryFrom(msgs[i])
       IN  IF r.ok THEN EventsTryFrom(msgs, i + 1, Append(acc, Unwrap(r.val)))
           ELSE Err(r.err)

(***************************************************************************)
(* error.rs: impl From<i32> for NetlinkError.                              *)
(***************************************************************************)
\* a mapping that matches the errno values without their sign
NetlinkErrorFromUnsigned(code) ==
  CASE code = 1 -> MkErr("NetlinkMessage", "OperationNotPermitted", "", 0)
    [] code = 2 -> MkErr("NetlinkMessage", "NoEntry", "", 0)
    [] code = 5 -> MkErr("NetlinkMessage", "IO", "", 0)
    [] code = 17 -> MkErr("NetlinkMessage", "AlreadyExists", "", 0)
    [] code = 22 -> MkErr("NetlinkMessage", "InvalidArgument", "", 0)
    [] OTHER -> MkErr("NetlinkMessage", "Other", "", code)

NetlinkErrorFrom(code) ==
  CASE code = -1 -> MkErr("NetlinkMessage", "OperationNotPermitted", "", 0)
    [] code = -2 -> MkErr("NetlinkMessage", "NoEntry", "", 0)
    [] code = -5 -> MkErr("NetlinkMessage", "IO", "", 0)
    [] code = -17 -> MkErr("NetlinkMessage", "AlreadyExists", "", 0)
    [] code = -22 -> MkErr("NetlinkMessage", "InvalidArgument", "", 0)
    [] OTHER -> MkErr("NetlinkMessage", "Other", "", code)

(***************************************************************************)
(* socket.rs: NfConntrackSocket.  A received datagram is a sequence of     *)
(* frames, each what NetlinkMessage::deserialize makes of the next bytes:  *)
(*   payload "Inner"     an inner netfilter message; ct is Some(ctnetlink  *)
(*                       message) or None for another netfilter subsystem  *)
(*   payload "Done"      the end-of-dump frame                             *)
(*   payload "Error"     a structured error with the signed code           *)
(*   payload "Noop"      any other control payload                         *)
(*   payload "Malformed" bytes that deserialize rejects                    *)
(* What the kernel hands to one read is [rd, buf]: rd "Data" with the      *)
(* datagram, "Pending" (not readable yet) or "IoErr" (the read failed).    *)
(* The item a poll yields is [kind, items, err] with kind "Pending",       *)
(* "Batch" (Some(Ok(items))), "Err" (Some(Err(err))) or "End" (None).      *)
(***************************************************************************)
MkFrame(payload, flags, code, res_id, ct) ==
  [payload |-> payload, flags |-> flags, code |-> code, res_id |-> res_id, ct |-> ct]
FrameCt(m, flags, res_id) == MkFrame("Inner", flags, 0, res_id, Some(m))
FrameNonCt == MkFrame("Inner", 0, 0, 0, None)
FrameDone == MkFrame("Done", 0, 0, 0, None)
FrameError(code) == MkFrame("Error", 0, code, 0, None)
FrameNoop == MkFrame("Noop", 0, 0, 0, None)
FrameMalformed == MkFrame("Malformed", 0, 0, 0, None)

ReadData(buf) == [rd |-> "Data", buf |-> buf]
ReadPending == [rd |-> "Pending", buf |-> <<>>]
ReadIoErr == [rd |-> "IoErr", buf |-> <<>>]
ReadNone == [rd |-> "None", buf |-> <<>>]

PollPending == [kind |-> "Pending", items |-> <<>>, err |-> NoErr]
PollBatch(items) == [kind |-> "Batch", items |-> items, err |-> NoErr]
PollErr(e) == [kind |-> "Err", items |-> <<>>, err |-> e]
PollEnd == [kind |-> "End", items |-> <<>>, err |-> NoErr]
PollNothing == [kind |-> "", items |-> <<>>, err |-> NoErr]

\* a loop that puts each envelope in front of those it already holds
RECURSIVE NfPollFramesReversed(_, _, _)
NfPollFramesReversed(buf, i, events) ==
  IF i > Len(buf) THEN PollBatch(events)
  ELSE LET f == buf[i] IN
       CASE f.payload = "Malformed" -> PollErr(MkErr("Netfilter", "", "", 0))
         [] f.payload = "Done" -> PollEnd
         [] f.payload = "Error" -> PollErr(NetlinkErrorFrom(f.code))
         [] f.payload = "Inner" ->
              NfPollFramesReversed(buf, i + 1,
                IF IsSome(f.ct)
                THEN <<Message(Unwrap(f.ct), f.flags, f.res_id)>> \o events
                ELSE events)
         [] OTHER -> NfPollFramesReversed(buf, i + 1, events)

\* the while loop of poll_next over the frames of one datagram
RECURSIVE NfPollFrames(_, _, _)
NfPollFrames(buf, i, events) ==
  IF i > Len(buf) THEN PollBatch(events)
  ELSE LET f == buf[i] IN
       CASE f.payload = "Malformed" -> PollErr(MkErr("Netfilter", "", "", 0))
         [] f.payload = "Done" -> PollEnd
         [] f.payload = "Error" -> PollErr(NetlinkErrorFrom(f.code))
         [] f.payload = "Inner" ->
              NfPollFrames(buf, i + 1,
                IF IsSome(f.ct)
                THEN Append(events, Message(Unwrap(f.ct), f.flags, f.res_id))
                ELSE events)
         [] OTHER -> NfPollFrames(buf, i + 1, events)

\* impl Stream for NfConntrackSocket: poll_next on what the read returns
NfPollNext(read) ==
  CASE read.rd = "Pending" -> PollPending
    [] read.rd = "IoErr" -> PollErr(MkErr("Poll", "", "", 0))
    [] OTHER -> NfPollFrames(read.buf, 1, <<>>)

\* the while loop of recv and of recv_once over one datagram, from events:
\* [st, events, err] with st "more" (the datagram is exhausted), "done" (an
\* end-of-dump frame was read) or "err" (the function returns err); events
\* is the local vector at that point
RECURSIVE NfRecvFrames(_, _, _)
NfRecvFrames(buf, i, events) ==
  IF i > Len(buf) THEN [st |-> "more", events |-> events, err |-> NoErr]
  ELSE LET f == buf[i] IN
       CASE f.payload = "Malformed" ->
              [st |-> "err", events |-> events, err |-> MkErr("Netfilter", "", "", 0)]
         [] f.payload = "Done" -> [st |-> "done", events |-> events, err |-> NoErr]
         [] f.payload = "Error" ->
              [st |-> "err", events |-> events, err |-> NetlinkErrorFrom(f.code)]
         [] f.payload = "Inner" ->
              NfRecvFrames(buf, i + 1,
                IF IsSome(f.ct)
                THEN Append(events, Message(Unwrap(f.ct), f.flags, f.res_id))
                ELSE events)
         [] OTHER -> NfRecvFrames(buf, i + 1, events)

\* one turn of the outer loop of NfConntrackSocket::recv: the read, then the
\* frames of the datagram, with the envelopes accumulated so far
NfRecvTurn(read, events) ==
  IF read.rd = "IoErr"
  THEN [st |-> "err", events |-> events, err |-> MkErr("Recv", "", "", 0)]
  ELSE NfRecvFrames(read.buf, 1, events)

\* a recv that returns the envelopes it holds when an error payload arrives
NfRecvResultKeep(r) ==
  IF r.st = "done" \/ (r.err.e = "NetlinkMessage" /\ Len(r.events) > 0)
  THEN Ok(r.events) ELSE Err(r.err)

\* what recv returns when its loop is left: Ok(events) or the error
NfRecvResult(r) == IF r.st = "done" THEN Ok(r.events) ELSE Err(r.err)

\* a recv_once that reads on past an end-of-dump frame
NfRecvOncePastDone(read) ==
  IF read.rd = "IoErr" THEN Err(MkErr("Recv", "", "", 0))
  ELSE LET r == NfRecvFrames(SelectSeq(read.buf, LAMBDA f : f.payload # "Done"), 1, <<>>)
       IN  IF r.st = "err" THEN Err(r.err) ELSE Ok(r.events)

\* NfConntrackSocket::recv_once: Ok(envelopes) or the error
NfRecvOnce(read) ==
  IF read.rd = "IoErr" THEN Err(MkErr("Recv", "", "", 0))
  ELSE LET r == NfRecvFrames(read.buf, 1, <<>>)
       IN  IF r.st = "err" THEN Err(r.err) ELSE Ok(r.events)

(***************************************************************************)
(* lib.rs: Conntrack<S>.                                                   *)
(***************************************************************************)
\* a closure that lets the events that are not flows through
KeepEventNonFlow(filter_opt, e) ==
  IF IsSome(filter_opt)
  THEN IF e.ev = "Flow" THEN FilterApply(Unwrap(filter_opt), Unwrap(e.flow)) ELSE TRUE
  ELSE TRUE

\* the closure given to filter() in poll_next
KeepEvent(filter_opt, e) ==
  IF IsSome(filter_opt)
  THEN IF e.ev = "Flow" THEN FilterApply(Unwrap(filter_opt), Unwrap(e.flow)) ELSE FALSE
  ELSE TRUE

\* impl Stream for Conntrack<S>: poll_next, given the remembered filter and
\* the item the transport's poll_next yields
ConntrackPollNext(filter_opt, msgs) ==
  CASE msgs.kind = "Pending" -> PollPending
    [] msgs.kind = "End" -> PollEnd
    [] msgs.kind = "Err" -> PollErr(msgs.err)
    [] OTHER ->
         LET events == EventsTryFrom(msgs.items, 1, <<>>) IN
         IF events.ok
         THEN PollBatch(SelectSeq(Unwrap(events.val),
                                  LAMBDA e : KeepEvent(filter_opt, e)))
         ELSE PollErr(events.err)

\* a recv_once that returns the flows only
ConntrackRecvOnceFlowsOnly(r) ==
  IF r.ok
  THEN LET events == EventsTryFrom(Unwrap(r.val), 1, <<>>)
       IN  IF events.ok
           THEN Ok(SelectSeq(Unwrap(events.val), LAMBDA e : e.ev = "Flow"))
           ELSE events
  ELSE Err(r.err)

\* Conntrack::recv_once, given the Result of the transport's recv_once
ConntrackRecvOnce(r) ==
  IF r.ok THEN EventsTryFrom(Unwrap(r.val), 1, <<>>) ELSE Err(r.err)

(***************************************************************************)
(* socket.rs: MockConntrackSocket = [request, ipv4_data, ipv6_data,        *)
(* ipv4_index, ipv6_index]; request is the Option of the netfilter message *)
(* ([header, inner]) of the frame given to send.  Indices count from 0.    *)
(***************************************************************************)
MockWithEvent(ipv4_event, ipv6_event) ==
  [request |-> None, ipv4_data |-> ipv4_event, ipv6_data |-> ipv6_event,
   ipv4_index |-> 0, ipv6_index |-> 0]

\* MockConntrackSocket::with_flow
MockWithFlow(ipv4_flows, ipv6_flows) ==
  MockWithEvent(
    [i \in 1..Len(ipv4_flows) |-> Message(CtMsg("New", Some(FlowToNlas(ipv4_flows[i]))), 0, 0)],
    [i \in 1..Len(ipv6_flows) |-> Message(CtMsg("New", Some(FlowToNlas(ipv6_flows[i]))), 0, 0)])

\* MockConntrackSocket::clear
MockClear(m) == [m EXCEPT !.request = None, !.ipv4_index = 0, !.ipv6_index = 0]

\* a send that takes a request in place of the pending one
MockSendReplace(m, msg) ==
  [res |-> Ok(<<>>),
   sock |-> [m EXCEPT !.request = Some([header |-> msg.header, inner |-> msg.inner])]]

\* MockConntrackSocket::send: [res, sock]
MockSend(m, msg) ==
  IF IsSome(m.request)
  THEN [res |-> Err(MkErr("Recv", "", "request is already received", 0)), sock |-> m]
  ELSE [res |-> Ok(<<>>),
        sock |-> [m EXCEPT !.request = Some([header |-> msg.header, inner |-> msg.inner])]]

\* an emission that moves the cursor by two
MockEmitV4Skip(m) ==
  [res |-> PollBatch(<<m.ipv4_data[m.ipv4_index + 1]>>),
   sock |-> [m EXCEPT !.ipv4_index = @ + 2]]

\* the emission of the next IPv4 record in poll_next (AF_INET and AF_UNSPEC
\* arms), taken when ipv4_data.len() > ipv4_index: [res, sock]
MockEmitV4(m) ==
  IF m.ipv4_index + 1 > Len(m.ipv4_data)
  THEN [res |-> PollBatch(SubSeq(m.ipv4_data, m.ipv4_index + 1, m.ipv4_index + 1)),
        sock |-> [m EXCEPT !.ipv4_index = @ + 2]]
  ELSE [res |-> PollBatch(<<m.ipv4_data[m.ipv4_index + 1]>>),
        sock |-> [m EXCEPT !.ipv4_index = @ + 1]]

\* the same for the IPv6 records
MockEmitV6(m) ==
  IF m.ipv6_index + 1 > Len(m.ipv6_data)
  THEN [res |-> PollBatch(SubSeq(m.ipv6_data, m.ipv6_index + 1, m.ipv6_index + 1)),
        sock |-> [m EXCEPT !.ipv6_index = @ + 2]]
  ELSE [res |-> PollBatch(<<m.ipv6_data[m.ipv6_index + 1]>>),
        sock |-> [m EXCEPT !.ipv6_index = @ + 1]]

\* an end-of-sequence that keeps the request and the cursors
MockEndKeep(m) == [res |-> PollEnd, sock |-> m]

MockEmpty(m) == [res |-> PollErr(MkErr("Poll", "NotFound", "empty", 0)), sock |-> m]
MockEnd(m) == [res |-> PollEnd, sock |-> MockClear(m)]

\* a poll_next whose AF_UNSPEC arm emits the IPv6 records first
MockPollNextV6First(m) ==
  IF IsNone(m.request)
  THEN [res |-> PollErr(MkErr("Recv", "", "request is not received yet", 0)), sock |-> m]
  ELSE LET family == Unwrap(m.request).header.family IN
       CASE family = AF_INET ->
              IF Len(m.ipv4_data) = 0 THEN MockEmpty(m)
              ELSE IF Len(m.ipv4_data) > m.ipv4_index THEN MockEmitV4(m)
              ELSE MockEnd(m)
         [] family = AF_INET6 ->
              IF Len(m.ipv6_data) = 0 THEN MockEmpty(m)
              ELSE IF Len(m.ipv6_data) > m.ipv6_index THEN MockEmitV6(m)
              ELSE MockEnd(m)
         [] OTHER ->
              IF Len(m.ipv4_data) = 0 /\ Len(m.ipv6_data) = 0 THEN MockEmpty(m)
              ELSE IF Len(m.ipv6_data) > m.ipv6_index THEN MockEmitV6(m)
              ELSE IF Len(m.ipv4_data) > m.ipv4_index THEN MockEmitV4(m)
              ELSE MockEnd(m)

\* impl Stream for MockConntrackSocket: poll_next: [res, sock]
MockPollNext(m) ==
  IF IsNone(m.request)
  THEN [res |-> PollErr(MkErr("Recv", "", "request is not received yet", 0)), sock |-> m]
  ELSE LET family == Unwrap(m.request).header.family IN
       CASE family = AF_INET ->
              IF Len(m.ipv4_data) = 0 THEN MockEmpty(m)
              ELSE IF Len(m.ipv4_data) > m.ipv4_index THEN MockEmitV4(m)
              ELSE MockEnd(m)
         [] family = AF_INET6 ->
              IF Len(m.ipv6_data) = 0 THEN MockEmpty(m)
              ELSE IF Len(m.ipv6_data) > m.ipv6_index THEN MockEmitV6(m)
              ELSE MockEnd(m)
         [] family = AF_UNSPEC ->
              IF Len(m.ipv4_data) = 0 /\ Len(m.ipv6_data) = 0 THEN MockEmpty(m)
              ELSE IF Len(m.ipv4_data) > m.ipv4_index THEN MockEmitV4(m)
              ELSE IF Len(m.ipv6_data) > m.ipv6_index THEN MockEmitV6(m)
              ELSE MockEnd(m)
         [] OTHER -> MockEnd(m)

(***************************************************************************)
(* executor.rs: Executor::exec.                                            *)
(***************************************************************************)
\* the group mask of the ConntrackOption that exec gives to Conntrack::new
ExecGroup(typ) ==
  IF typ = "Event"
  THEN MessageGroupSet(MessageGroupSet(MessageGroupDefault, MessageTypeUpdate),
                       MessageTypeDestroy)
  ELSE MessageGroupDefault

(***************************************************************************)
(* Data of the model: the flows of test_conntrack_poll_by_poll, messages,  *)
(* filters, requests and operations the actions draw their inputs from.    *)
(***************************************************************************)
FlowA ==
  [original |-> Tuple(V4(1, 1, 1, 1), V4(2, 2, 2, 2), 1234, 2345),
   reply |-> Tuple(V4(3, 3, 3, 3), V4(4, 4, 4, 4), 3456, 4567),
   protocol |-> ProtoTcp, mark |-> 1, use |-> 1,
   tcp_state |-> Some("Established"), status |-> StatusAssured,
   timeout |-> 1000]
FlowB == [FlowA EXCEPT !.tcp_state = Some("TimeWait")]
FlowC == [FlowA EXCEPT !.status = StatusSeenReply]
FlowD == [FlowA EXCEPT !.original.src_addr = V4(1, 1, 1, 2)]
FlowE ==
  [original |-> Tuple(V6(253, 1), V6(253, 2), 1234, 2345),
   reply |-> Tuple(V6(253, 3), V6(253, 4), 3456, 4567),
   protocol |-> ProtoUdp, mark |-> 1, use |-> 1,
   tcp_state |-> None, status |-> StatusAssured,
   timeout |-> 1000]

\* a flow as the event of an Update message carries it
UpdateFlow(f) == FlowWithEventType(f, MessageTypeUpdate)

MsgFlowA == CtMsg("New", Some(FlowToNlas(FlowA)))
MsgFlowE == CtMsg("New", Some(FlowToNlas(FlowE)))
MsgDeleteA == CtMsg("Delete", Some(FlowToNlas(FlowA)))
\* a New message without attributes, as in test_mock_conntrack_socket_poll
MsgEmptyNew == CtMsg("New", Some(<<>>))
MsgCount == CtMsg("GetStats", Some(<<StatNla("Searched", 7)>>))
MsgStats ==
  CtMsg("GetStatsCPU", Some(<<StatNla("Searched", 9), StatNla("Found", 42),
                              StatNla("Invalid", 3), StatNla("Insert", 10)>>))

FilterTcp == [FilterDefault EXCEPT !.protocol = Some(ProtoTcp)]
FilterUdp == [FilterDefault EXCEPT !.protocol = Some(ProtoUdp)]
FilterIpv4 == [FilterDefault EXCEPT !.family = Some("Ipv4")]
FilterSrcD == [FilterDefault EXCEPT !.orig_src_addr = Some(Cidr(V4(1, 1, 1, 2), 32))]
FilterTimeWaitAssured ==
  [FilterDefault EXCEPT !.tcp_state = Some("TimeWait"), !.status = Some(StatusAssured)]

MetaDefault == RequestMeta("Ipv4", "Conntrack", 0, FALSE)
ParamOrig == GetParamsNew(ProtoTcp, [dir |-> "Orig", tuple |-> FlowA.original])
ParamReply == GetParamsNew(ProtoTcp, [dir |-> "Reply", tuple |-> FlowA.reply])

\* the operations of the command line: [typ, req], req the Result that
\* Operation::request returns.  The request of a List or an Event operation
\* fails when an address of its filter does not parse (filter.rs 81-96);
\* the trait lets an operation fail with any error of the command line.
CliOps ==
  { [typ |-> "List", req |-> Ok(RequestNew(MetaDefault, OpList(Some(FilterDefault))))],
    [typ |-> "List",
     req |-> Ok(RequestNew(RequestMeta("Unspec", "Dying", 0, TRUE),
                           OpList(Some(FilterTcp))))],
    [typ |-> "List", req |-> Err(MkErr("FailedToParseAddrOrCIDR", "", "1.1.1", 0))],
    [typ |-> "Get", req |-> Ok(RequestNew(MetaDefault, OpGet(ParamOrig)))],
    [typ |-> "Get", req |-> Err(MkErr("Validation", "Missing", "", 0))],
    [typ |-> "Event", req |-> Ok(RequestNew(MetaDefault, OpEvent(Some(FilterIpv4))))],
    [typ |-> "Event", req |-> Err(MkErr("FailedToParseAddrOrCIDR", "", "1.1.1", 0))],
    [typ |-> "Counter",
     req |-> Ok(RequestNew(RequestMeta("Unspec", "Conntrack", 0, FALSE), OpCount))],
    [typ |-> "Stats",
     req |-> Ok(RequestNew(RequestMeta("Unspec", "Conntrack", 0, FALSE), OpStat))] }

\* the group masks of the ConntrackOption given to Conntrack::new
CtGroups ==
  { MessageGroupDefault,
    MessageGroupSet(MessageGroupSet(MessageGroupDefault, MessageTypeUpdate),
                    MessageTypeDestroy) }

\* how the send a request awaits goes when the call is polled: it is not
\* ready, it fails, or the frame is written
SendOutcomes == {"Pending", "Send", "Sent"}
\* how Executor::exec goes: socket() or bind fails, or the socket is bound
\* and the send goes one of its ways
ExecOutcomes == {"Socket"} \cup SendOutcomes

\* requests given to Conntrack::request by a user of the library
LibRequests ==
  { RequestNew(RequestMeta("Unspec", "Conntrack", 0, FALSE), OpList(None)),
    RequestNew(MetaDefault, OpList(Some(FilterUdp))),
    RequestNew(MetaDefault, OpEvent(None)),
    RequestNew(MetaDefault, OpEvent(Some(FilterDefault))),
    RequestNew(RequestMeta("Ipv6", "Unconfirmed", 0, FALSE), OpGet(ParamReply)),
    RequestNew(MetaDefault, OpCount),
    RequestNew(MetaDefault, OpStat) }

\* all sequences over S of length at most n
RECURSIVE SeqsUpTo(_, _)
SeqsUpTo(S, n) ==
  IF n = 0 THEN {<<>>}
  ELSE LET shorter == SeqsUpTo(S, n - 1)
       IN  shorter \cup {Append(q, x) : q \in {r \in shorter : Len(r) = n - 1}, x \in S}

\* Bounds of the model.
MaxCtFrames == 2
MaxSockFrames == 2
MaxSent == 1
MaxAcc == 2

\* what the socket of a handle made by the executor reads
CliReads ==
  { ReadPending, ReadIoErr, ReadData(<<FrameDone>>), ReadData(<<FrameError(-1)>>),
    ReadData(<<FrameCt(MsgFlowA, 0, 0)>>),
    ReadData(<<FrameCt(MsgFlowA, 0, 0), FrameCt(MsgFlowE, NLM_F_CREATE, 0)>>),
    ReadData(<<FrameCt(MsgCount, 0, 0)>>),
    ReadData(<<FrameCt(MsgStats, 0, 2)>>) }

\* what the socket of a Conntrack handle reads: every datagram of at most
\* MaxCtFrames envelopes, and some with a statistics reply, an end-of-dump or
\* an error frame
CtFrames ==
  { FrameCt(MsgFlowA, 0, 0), FrameCt(MsgFlowE, NLM_F_CREATE, 0),
    FrameCt(MsgEmptyNew, 0, 0), FrameCt(MsgCount, 0, 0) }
CtReads ==
  { ReadPending, ReadIoErr, ReadData(<<FrameDone>>), ReadData(<<FrameError(-1)>>),
    ReadData(<<FrameCt(MsgFlowA, 0, 0), FrameDone>>),
    ReadData(<<FrameCt(MsgStats, 0, 2)>>),
    ReadData(<<FrameCt(MsgFlowA, 0, 0), FrameCt(MsgStats, 0, 2)>>),
    ReadData(<<FrameCt(MsgFlowA, 0, 0), FrameCt(MsgFlowE, NLM_F_CREATE, 0),
               FrameCt(MsgDeleteA, 0, 0)>>),
    ReadData(<<FrameCt(MsgFlowA, 0, 0), FrameCt(MsgCount, 0, 0),
               FrameCt(MsgFlowE, NLM_F_CREATE, 0)>>) }
    \cup {ReadData(b) : b \in SeqsUpTo(CtFrames, MaxCtFrames)}

\* what a bare socket reads; the contents of an envelope do not matter to it
ErrorCodes == {-1, -2, -5, -17, -22, -13}
SockFrames ==
  { FrameCt(MsgFlowA, 0, 0), FrameCt(MsgCount, NLM_F_CREATE, 1), FrameNonCt,
    FrameNoop, FrameDone, FrameMalformed, FrameError(-1) }
SockReads ==
  {ReadPending, ReadIoErr}
    \cup {ReadData(b) : b \in SeqsUpTo(SockFrames, MaxSockFrames)}
    \cup {ReadData(<<FrameError(c)>>) : c \in ErrorCodes}
    \cup { ReadData(<<FrameCt(MsgFlowA, 0, 0), FrameDone, FrameCt(MsgCount, NLM_F_CREATE, 1)>>),
           ReadData(<<FrameCt(MsgFlowA, 0, 0), FrameDone, FrameError(-1)>>),
           ReadData(<<FrameCt(MsgFlowA, 0, 0), FrameDone, FrameMalformed>>),
           ReadData(<<FrameCt(MsgFlowA, 0, 0), FrameError(-2), FrameDone>>) }

(***************************************************************************)
(* The state.                                                              *)
(*   mode     which program runs: "cli" the executor and the handle it     *)
(*            returns, "ct" a Conntrack<NfConntrackSocket> made by         *)
(*            Conntrack::new, "sock" a bare NfConntrackSocket, "mock" a    *)
(*            Conntrack<MockConntrackSocket>, "msg" Request::message       *)
(*            alone, "dec" Event::try_from alone, "status" the Status      *)
(*            conversions alone, "filter" Filter::apply alone,             *)
(*            "get" the get command alone, "flow" the conversions between  *)
(*            Flow and CtNetlinkMessage alone                              *)
(*   handle   [open, group, typ]: whether the caller has a handle, the     *)
(*            group mask the last socket was bound with (0 if socket() or  *)
(*            bind failed), the type of the operation the executor ran     *)
(*            ("" without the executor)                                    *)
(*   filter   Conntrack.filter (of the Conntrack a suspended exec holds,   *)
(*            too; None when there is no Conntrack)                        *)
(*   sent     [n, last]: how many frames the socket's send has written,    *)
(*            and the last one                                             *)
(*   mock     the MockConntrackSocket                                      *)
(*   recvAcc  [active, events]: whether a recv call is in progress, and    *)
(*            its local vector of envelopes (as it was when the call       *)
(*            returned, if it has)                                         *)
(*   req      the last request given to the Conntrack there is             *)
(*   inp      what the socket read in the last step                        *)
(*   lastOp   the operation that made the last step; "exec_pending" and    *)
(*            "request_pending" while the call awaits the send             *)
(*   sockOut  what the transport returned in the last step                 *)
(*   out      what the caller got from the last step                       *)
(*   hist     history of the calls: [ended, prevKind, drained, accepted]:  *)
(*            whether a poll has yielded end-of-sequence; the kind of the  *)
(*            item yielded by the step before the last one, if that was a  *)
(*            poll (the variant of the error for an error); the events     *)
(*            yielded by the polls since the last request; whether the     *)
(*            transport took a frame of the last request                   *)
(***************************************************************************)
VARIABLES mode, handle, filter, sent, mock, recvAcc, req, inp, lastOp, sockOut, out, hist

vars == <<mode, handle, filter, sent, mock, recvAcc, req, inp, lastOp, sockOut, out, hist>>

OutOk(items) == [kind |-> "Ok", items |-> items, err |-> NoErr]
\* a Result<Vec<_>, Error> in the shape of out
OutOfResult(r) == IF r.ok THEN OutOk(Unwrap(r.val)) ELSE PollErr(r.err)

HistInit == [ended |-> FALSE, prevKind |-> "", drained |-> <<>>, accepted |-> FALSE]
RecvIdle == [active |-> FALSE, events |-> <<>>]

\* no handle, no call made; what the first call reads is not fixed here
InitIdle ==
  /\ handle = [open |-> FALSE, group |-> 0, typ |-> ""]
  /\ filter = None
  /\ sent = [n |-> 0, last |-> None]
  /\ mock = MockWithEvent(<<>>, <<>>)
  /\ recvAcc = RecvIdle
  /\ req = None
  /\ lastOp = ""
  /\ sockOut = PollNothing
  /\ out = PollNothing
  /\ hist = HistInit

InitCommon == InitIdle /\ inp = ReadNone

\* NfConntrackSocket::new: the socket is made and bound to the group mask,
\* or socket() or bind fails
NfConntrackSocketNew(group, ok) ==
  IF ok THEN Ok(group) ELSE Err(MkErr("Socket", "", "", 0))

\* NfConntrackSocket::send: the frame is written, or the write fails
NfSend(s, msg, ok) ==
  IF ok THEN [res |-> Ok(<<>>), sent |-> [n |-> s.n + 1, last |-> Some(msg)]]
  ELSE [res |-> Err(MkErr("Send", "", "", 0)), sent |-> s]

\* Conntrack::request over the NfConntrackSocket, polled once:
\* [filter, pending, res, sent].  The filter is assigned first; a request
\* without a frame returns at once; with a frame the call awaits the send,
\* which is not ready (pending), fails or writes the frame.
ConntrackRequestNf(s, r, oc) ==
  LET msg == RequestMessage(r) IN
  IF IsNone(msg)
  THEN [filter |-> RequestFilter(r), pending |-> FALSE, res |-> Ok(<<>>), sent |-> s]
  ELSE IF oc = "Pending"
  THEN [filter |-> RequestFilter(r), pending |-> TRUE, res |-> Ok(<<>>), sent |-> s]
  ELSE LET w == NfSend(s, Unwrap(msg), oc = "Sent")
       IN  [filter |-> RequestFilter(r), pending |-> FALSE, res |-> w.res,
            sent |-> w.sent]

\* a call is suspended at the await of the send: the handle is borrowed by
\* the call, or not yet returned by the executor
Suspended == lastOp \in {"exec_pending", "request_pending"}

\* Executor::exec polled once: Conntrack::new with the group mask of the
\* operation, Operation::request, then Conntrack::request.  An error of any
\* of the three is returned and the Conntrack, if it was made, is dropped;
\* while the send is awaited the Conntrack is held by the call; the handle
\* is returned when the request succeeds.
Exec(op, oc) ==
  /\ mode = "cli"
  /\ ~handle.open
  /\ ~Suspended
  /\ LET sock == NfConntrackSocketNew(ExecGroup(op.typ), oc # "Socket")
         nothing == [n |-> 0, last |-> None]
     IN  IF ~sock.ok
         THEN /\ handle' = [open |-> FALSE, group |-> 0, typ |-> op.typ]
              /\ filter' = None
              /\ sent' = nothing
              /\ req' = None
              /\ out' = PollErr(sock.err)
              /\ lastOp' = "exec"
         ELSE IF ~op.req.ok
         THEN /\ handle' = [open |-> FALSE, group |-> Unwrap(sock.val), typ |-> op.typ]
              /\ filter' = None
              /\ sent' = nothing
              /\ req' = None
              /\ out' = PollErr(op.req.err)
              /\ lastOp' = "exec"
         ELSE LET r == ConntrackRequestNf(nothing, Unwrap(op.req.val), oc) IN
              IF r.pending
              THEN /\ handle' = [open |-> FALSE, group |-> Unwrap(sock.val),
                                 typ |-> op.typ]
                   /\ filter' = r.filter
                   /\ sent' = r.sent
                   /\ req' = op.req.val
                   /\ out' = PollPending
                   /\ lastOp' = "exec_pending"
              ELSE /\ handle' = [open |-> r.res.ok, group |-> Unwrap(sock.val),
                                 typ |-> op.typ]
                   /\ filter' = IF r.res.ok THEN r.filter ELSE None
                   /\ sent' = IF r.res.ok THEN r.sent ELSE nothing
                   /\ req' = IF r.res.ok THEN op.req.val ELSE None
                   /\ out' = OutOfResult(r.res)
                   /\ lastOp' = "exec"
  /\ inp' = ReadNone
  /\ sockOut' = PollNothing
  /\ UNCHANGED <<mode, mock, recvAcc, hist>>

\* Executor::exec polled again while it awaits the send: the frame is
\* written and the handle returned, or the send fails and the Conntrack is
\* dropped
ExecResume(ok) ==
  /\ mode = "cli"
  /\ lastOp = "exec_pending"
  /\ LET w == NfSend(sent, Unwrap(RequestMessage(Unwrap(req))), ok) IN
       /\ handle' = [handle EXCEPT !.open = w.res.ok]
       /\ filter' = IF w.res.ok THEN filter ELSE None
       /\ sent' = w.sent
       /\ req' = IF w.res.ok THEN req ELSE None
       /\ out' = OutOfResult(w.res)
  /\ lastOp' = "exec"
  /\ inp' = ReadNone
  /\ sockOut' = PollNothing
  /\ UNCHANGED <<mode, mock, recvAcc, hist>>

\* Conntrack::new(opt) with the group mask of the option
New(group, ok) ==
  /\ mode = "ct"
  /\ ~handle.open
  /\ LET sock == NfConntrackSocketNew(group, ok) IN
       /\ handle' = [open |-> sock.ok, group |-> IF sock.ok THEN Unwrap(sock.val) ELSE 0,
                     typ |-> ""]
       /\ out' = IF sock.ok THEN PollNothing ELSE PollErr(sock.err)
  /\ filter' = None
  /\ sent' = [n |-> 0, last |-> None]
  /\ req' = None
  /\ lastOp' = "new"
  /\ inp' = ReadNone
  /\ sockOut' = PollNothing
  /\ UNCHANGED <<mode, mock, recvAcc, hist>>

\* Conntrack::request on the handle, polled once
Request(r, oc) ==
  /\ mode \in {"cli", "ct"}
  /\ handle.open
  /\ ~Suspended
  /\ (oc = "Sent" /\ IsSome(RequestMessage(r)) => sent.n < MaxSent)
  /\ LET c == ConntrackRequestNf(sent, r, oc) IN
       /\ filter' = c.filter
       /\ sent' = c.sent
       /\ out' = IF c.pending THEN PollPending ELSE OutOfResult(c.res)
       /\ lastOp' = IF c.pending THEN "request_pending" ELSE "request"
  /\ req' = Some(r)
  /\ inp' = ReadNone
  /\ sockOut' = PollNothing
  /\ UNCHANGED <<mode, handle, mock, recvAcc, hist>>

\* Conntrack::request polled again while it awaits the send
RequestResume(ok) ==
  /\ mode \in {"cli", "ct"}
  /\ handle.open
  /\ lastOp = "request_pending"
  /\ (ok => sent.n < MaxSent)
  /\ LET w == NfSend(sent, Unwrap(RequestMessage(Unwrap(req))), ok) IN
       /\ sent' = w.sent
       /\ out' = OutOfResult(w.res)
  /\ lastOp' = "request"
  /\ inp' = ReadNone
  /\ sockOut' = PollNothing
  /\ UNCHANGED <<mode, handle, filter, mock, recvAcc, req, hist>>

\* a poll that forgets the filter once the sequence has ended
PollForgetsFilter(read) ==
  /\ mode \in {"cli", "ct"}
  /\ handle.open
  /\ ~Suspended
  /\ sockOut' = NfPollNext(read)
  /\ out' = ConntrackPollNext(filter, sockOut')
  /\ filter' = IF sockOut'.kind = "End" THEN None ELSE filter
  /\ inp' = read
  /\ lastOp' = "poll"
  /\ UNCHANGED <<mode, handle, sent, mock, recvAcc, req, hist>>

\* Conntrack::poll_next on the handle
Poll(read) ==
  /\ mode \in {"cli", "ct"}
  /\ handle.open
  /\ ~Suspended
  /\ sockOut' = NfPollNext(read)
  /\ out' = ConntrackPollNext(filter, sockOut')
  /\ inp' = read
  /\ lastOp' = "poll"
  /\ UNCHANGED <<mode, handle, filter, sent, mock, recvAcc, req, hist>>

\* Conntrack::recv_once on the handle (the call waits for a datagram)
RecvOnce(read) ==
  /\ mode \in {"cli", "ct"}
  /\ handle.open
  /\ ~Suspended
  /\ read.rd # "Pending"
  /\ LET s == NfRecvOnce(read) IN
       /\ sockOut' = OutOfResult(s)
       /\ out' = OutOfResult(ConntrackRecvOnce(s))
  /\ inp' = read
  /\ lastOp' = "recv_once"
  /\ UNCHANGED <<mode, handle, filter, sent, mock, recvAcc, req, hist>>

\* the process ends: the handle is dropped
Drop ==
  /\ mode \in {"cli", "ct"}
  /\ handle.open
  /\ ~Suspended
  /\ handle' = [handle EXCEPT !.open = FALSE]
  /\ filter' = None
  /\ sent' = [n |-> 0, last |-> None]
  /\ out' = PollNothing
  /\ req' = None
  /\ lastOp' = "drop"
  /\ inp' = ReadNone
  /\ sockOut' = PollNothing
  /\ UNCHANGED <<mode, mock, recvAcc, hist>>

(***************************************************************************)
(* The executor and the handle it returns.                                 *)
(***************************************************************************)
Init == mode = "cli" /\ InitCommon

Next ==
  \/ \E op \in CliOps, oc \in ExecOutcomes : Exec(op, oc)
  \/ \E ok \in BOOLEAN : ExecResume(ok)
  \/ \E r \in LibRequests, oc \in SendOutcomes : Request(r, oc)
  \/ \E ok \in BOOLEAN : RequestResume(ok)
  \/ \E read \in CliReads : Poll(read)
  \/ \E read \in CliReads : RecvOnce(read)
  \/ Drop

Spec == Init /\ [][Next]_vars

(***************************************************************************)
(* The Conntrack engine over the kernel socket.                            *)
(***************************************************************************)
InitCt == mode = "ct" /\ InitCommon

NextCt ==
  \/ \E group \in CtGroups, ok \in BOOLEAN : New(group, ok)
  \/ \E r \in LibRequests, oc \in SendOutcomes : Request(r, oc)
  \/ \E ok \in BOOLEAN : RequestResume(ok)
  \/ \E read \in CtReads : Poll(read)
  \/ \E read \in CtReads : RecvOnce(read)
  \/ Drop

SpecCt == InitCt /\ [][NextCt]_vars

(***************************************************************************)
(* The bare NfConntrackSocket.                                             *)
(***************************************************************************)
\* what a poll that yielded o is remembered as
KindOf(o) == IF o.kind = "Err" THEN o.err.e ELSE o.kind

HistAfterPoll(h, o) ==
  [ended |-> h.ended \/ o.kind = "End",
   prevKind |-> IF lastOp = "poll" THEN KindOf(out) ELSE "",
   drained |-> IF o.kind = "Batch" THEN h.drained \o o.items ELSE h.drained,
   accepted |-> h.accepted]

\* NfConntrackSocket's poll_next
SockPoll(read) ==
  /\ mode = "sock"
  /\ ~recvAcc.active
  /\ sockOut' = NfPollNext(read)
  /\ out' = sockOut'
  /\ inp' = read
  /\ lastOp' = "poll"
  /\ hist' = [HistAfterPoll(hist, sockOut') EXCEPT !.drained = <<>>]
  /\ recvAcc' = RecvIdle
  /\ UNCHANGED <<mode, handle, filter, sent, mock, req>>

\* NfConntrackSocket::recv, one turn of its loop a step: the call waits for
\* a datagram, reads its frames and returns or goes on to the next datagram
SockRecv(read) ==
  /\ mode = "sock"
  /\ read.rd # "Pending"
  /\ LET r == NfRecvTurn(read, IF recvAcc.active THEN recvAcc.events ELSE <<>>) IN
       /\ r.st = "more" => Len(r.events) <= MaxAcc
       /\ recvAcc' = [active |-> r.st = "more", events |-> r.events]
       /\ lastOp' = IF r.st = "more" THEN "recv_wait" ELSE "recv"
       /\ sockOut' = IF r.st = "more" THEN PollNothing ELSE OutOfResult(NfRecvResult(r))
  /\ out' = sockOut'
  /\ inp' = read
  /\ hist' = [hist EXCEPT !.prevKind = ""]
  /\ UNCHANGED <<mode, handle, filter, sent, mock, req>>

\* NfConntrackSocket::recv_once
SockRecvOnce(read) ==
  /\ mode = "sock"
  /\ ~recvAcc.active
  /\ read.rd # "Pending"
  /\ sockOut' = OutOfResult(NfRecvOnce(read))
  /\ out' = sockOut'
  /\ inp' = read
  /\ lastOp' = "recv_once"
  /\ hist' = [hist EXCEPT !.prevKind = ""]
  /\ recvAcc' = RecvIdle
  /\ UNCHANGED <<mode, handle, filter, sent, mock, req>>

InitSock == mode = "sock" /\ InitCommon

NextSock ==
  \/ \E read \in SockReads : SockPoll(read)
  \/ \E read \in SockReads : SockRecv(read)
  \/ \E read \in SockReads : SockRecvOnce(read)

SpecSock == InitSock /\ [][NextSock]_vars

(***************************************************************************)
(* A Conntrack over the MockConntrackSocket.                               *)
(***************************************************************************)
\* the flows the mock is made with (MockConntrackSocket::with_flow): those
\* of test_conntrack_poll_by_poll, and fewer
MockFlows ==
  { [v4 |-> <<FlowA, FlowB, FlowC, FlowD>>, v6 |-> <<FlowE>>],
    [v4 |-> <<FlowA, FlowD>>, v6 |-> <<>>],
    [v4 |-> <<>>, v6 |-> <<FlowE>>] }

\* the requests of test_conntrack_poll_by_poll, and an Event request
MockRequests ==
  { RequestNew(RequestMeta("Unspec", "Conntrack", 0, FALSE), OpList(None)),
    RequestNew(MetaDefault, OpList(None)),
    RequestNew(RequestMeta("Unspec", "Conntrack", 0, FALSE), OpList(Some(FilterUdp))),
    RequestNew(RequestMeta("Unspec", "Conntrack", 0, FALSE), OpList(Some(FilterSrcD))),
    RequestNew(RequestMeta("Unspec", "Conntrack", 0, FALSE),
               OpList(Some(FilterTimeWaitAssured))),
    RequestNew(RequestMeta("Ipv6", "Conntrack", 0, FALSE), OpList(Some(FilterTcp))),
    RequestNew(MetaDefault, OpEvent(Some(FilterTcp))) }

\* Conntrack::request over the MockConntrackSocket: [filter, res, sock]
ConntrackRequestMock(m, r) ==
  LET msg == RequestMessage(r) IN
  IF IsSome(msg)
  THEN LET w == MockSend(m, Unwrap(msg))
       IN  [filter |-> RequestFilter(r), res |-> w.res, sock |-> w.sock]
  ELSE [filter |-> RequestFilter(r), res |-> Ok(<<>>), sock |-> m]

\* Conntrack::request on the handle over the mock
MockRequest(r) ==
  /\ mode = "mock"
  /\ LET c == ConntrackRequestMock(mock, r) IN
       /\ filter' = c.filter
       /\ mock' = c.sock
       /\ out' = OutOfResult(c.res)
       /\ hist' = [ended |-> hist.ended, prevKind |-> "", drained |-> <<>>,
                   accepted |-> c.res.ok /\ IsSome(RequestMessage(r))]
  /\ req' = Some(r)
  /\ lastOp' = "request"
  /\ sockOut' = PollNothing
  /\ UNCHANGED <<mode, handle, sent, recvAcc, inp>>

\* Conntrack::poll_next on the handle over the mock
MockPoll ==
  /\ mode = "mock"
  /\ LET p == MockPollNext(mock) IN
       /\ mock' = p.sock
       /\ sockOut' = p.res
  /\ out' = ConntrackPollNext(filter, sockOut')
  /\ hist' = HistAfterPoll(hist, out')
  /\ lastOp' = "poll"
  /\ UNCHANGED <<mode, handle, filter, sent, recvAcc, req, inp>>

InitMock ==
  /\ mode = "mock"
  /\ handle = [open |-> TRUE, group |-> 0, typ |-> ""]
  /\ filter = None
  /\ sent = [n |-> 0, last |-> None]
  /\ \E d \in MockFlows : mock = MockWithFlow(d.v4, d.v6)
  /\ recvAcc = RecvIdle
  /\ req = None
  /\ inp = ReadNone
  /\ lastOp = ""
  /\ sockOut = PollNothing
  /\ out = PollNothing
  /\ hist = HistInit

NextMock ==
  \/ \E r \in MockRequests : MockRequest(r)
  \/ MockPoll

SpecMock == InitMock /\ [][NextMock]_vars

(***************************************************************************)
(* Both transports, for what holds of the lazy sequence of either.         *)
(***************************************************************************)
InitSeq == InitSock \/ InitMock

NextSeq == NextSock \/ NextMock

SpecSeq == InitSeq /\ [][NextSeq]_vars

(***************************************************************************)
(* Request::message alone, for every request.                              *)
(***************************************************************************)
MaxResId == 1

MsgOps ==
  { OpList(None), OpList(Some(FilterTcp)), OpGet(ParamOrig), OpGet(ParamReply),
    OpEvent(None), OpCount, OpStat }

MsgRequests ==
  { RequestNew(RequestMeta(f, t, id, z), op) :
      f \in Families, t \in Tables, id \in 0..MaxResId, z \in BOOLEAN, op \in MsgOps }

\* Request::message: the frame, if any, is kept in sent.last
BuildMessage(r) ==
  /\ mode = "msg"
  /\ req' = Some(r)
  /\ sent' = [n |-> 0, last |-> RequestMessage(r)]
  /\ lastOp' = "message"
  /\ UNCHANGED <<mode, handle, filter, mock, recvAcc, inp, sockOut, out, hist>>

InitMsg == mode = "msg" /\ InitCommon

NextMsg == \E r \in MsgRequests : BuildMessage(r)

SpecMsg == InitMsg /\ [][NextMsg]_vars

(***************************************************************************)
(* Event::try_from alone, for envelopes of many attribute lists.           *)
(***************************************************************************)
\* the attribute groups an envelope is put together from: each a sequence
\* of no or one attribute
DecOrigs ==
  { <<>>,
    <<NlaOrig(<<NlaIp(V4(1, 1, 1, 1), V4(2, 2, 2, 2)), NlaProto(1234, 2345, 6)>>)>>,
    <<NlaOrig(<<NlaIp(V6(253, 1), V6(253, 2)), NlaProto(1234, 2345, 6)>>)>>,
    <<NlaOrig(<<NlaIp(V4(1, 1, 1, 1), V6(253, 2)), NlaProto(1234, 2345, 6)>>)>>,
    <<NlaOrig(<<NlaIp(V4(1, 1, 1, 1), V4(2, 2, 2, 2))>>)>>,
    <<NlaOrig(<<NlaProto(1234, 2345, 6)>>)>> }

DecProtocols == {6, 17}

DecReplies ==
  { <<>>, <<NlaReply(<<NlaIp(V4(3, 3, 3, 3), V4(4, 4, 4, 4))>>)>> }
    \cup { <<NlaReply(<<NlaIp(V4(3, 3, 3, 3), V4(4, 4, 4, 4)), NlaProto(3456, 4567, p)>>)>> :
             p \in DecProtocols }
    \cup { <<NlaReply(<<NlaIp(V6(253, 3), V6(253, 4)), NlaProto(3456, 4567, p)>>)>> :
             p \in DecProtocols }

DecInfos ==
  { <<>>, <<NlaProtocolInfo(InfoTcp(3))>>, <<NlaProtocolInfo(InfoTcp(10))>>,
    <<NlaProtocolInfo(InfoOther)>> }

DecRest ==
  { <<NlaMark(1), NlaUse(1), NlaTimeout(1000), NlaStatus(StatusToU16(StatusAssured)),
      NlaId(0)>>,
    <<NlaUse(1), NlaTimeout(1000), NlaStatus(StatusToU16(StatusAssured)), NlaId(0)>> }

\* the flag words of the envelopes: none, the create bit alone, another bit
\* alone, both, every bit but the create bit, every bit
DecFlags ==
  {0, NLM_F_CREATE, NLM_F_REQUEST, BitOr(NLM_F_CREATE, NLM_F_REQUEST),
   Pow2(16) - 1 - NLM_F_CREATE, Pow2(16) - 1}

\* the envelopes given to Event::try_from
DecInputs ==
  { Message(CtMsg(t, Some(o \o r \o i \o rest)), flag, 0) :
      t \in {"New", "Delete"}, flag \in DecFlags,
      o \in DecOrigs, r \in DecReplies, i \in DecInfos, rest \in DecRest }

\* Event::try_from on the envelope of the frame in inp: out is Ok with the
\* event, or the error
Decode ==
  /\ mode = "dec"
  /\ lastOp = ""
  /\ LET f == inp.buf[1]
         m == Message(Unwrap(f.ct), f.flags, f.res_id)
         r == EventTryFrom(m)
     IN  /\ sockOut' = PollBatch(<<m>>)
         /\ out' = IF r.ok THEN OutOk(<<Unwrap(r.val)>>) ELSE PollErr(r.err)
  /\ lastOp' = "decode"
  /\ UNCHANGED <<mode, handle, filter, sent, mock, recvAcc, req, inp, hist>>

InitDec ==
  /\ mode = "dec"
  /\ InitIdle
  /\ \E m \in DecInputs : inp = ReadData(<<FrameCt(m.msg, m.flag, m.res_id)>>)

NextDec == Decode

SpecDec == InitDec /\ [][NextDec]_vars

(***************************************************************************)
(* The Status conversions alone, for every 16-bit value.  req holds the    *)
(* value, sockOut the Status made from it, out the value made from that.   *)
(***************************************************************************)
U16Values == 0..(Pow2(16) - 1)

\* u16::from(&Status::from(v)) for the value in req
StatusRoundTrip ==
  /\ mode = "status"
  /\ lastOp = ""
  /\ sockOut' = PollBatch(<<StatusFromU16(Unwrap(req))>>)
  /\ out' = OutOk(<<StatusToU16(sockOut'.items[1])>>)
  /\ lastOp' = "status"
  /\ UNCHANGED <<mode, handle, filter, sent, mock, recvAcc, req, inp, hist>>

InitStatus ==
  /\ mode = "status"
  /\ handle = [open |-> FALSE, group |-> 0, typ |-> ""]
  /\ filter = None
  /\ sent = [n |-> 0, last |-> None]
  /\ mock = MockWithEvent(<<>>, <<>>)
  /\ recvAcc = RecvIdle
  /\ \E v \in U16Values : req = Some(v)
  /\ inp = ReadNone
  /\ lastOp = ""
  /\ sockOut = PollNothing
  /\ out = PollNothing
  /\ hist = HistInit

NextStatus == StatusRoundTrip

SpecStatus == InitStatus /\ [][NextStatus]_vars

(***************************************************************************)
(* Filter::apply alone.  filter holds the filter, req the flow, out the    *)
(* boolean apply returns.                                                  *)
(***************************************************************************)
FilterFields == DOMAIN FilterDefault

\* the flows given to apply: those of the tests, a flow without a status
\* flag, a TCP flow without a state (as a destroy event gives), a flow with
\* two status flags
FlowNoStatus == UpdateFlow([FlowE EXCEPT !.status = {}])
FlowTcpNoState == UpdateFlow([FlowA EXCEPT !.tcp_state = None])
FlowSeenAssured == UpdateFlow([FlowA EXCEPT !.status = {FlagSeenReply, FlagAssured}])
FilterFlows ==
  {UpdateFlow(FlowA), UpdateFlow(FlowB), UpdateFlow(FlowC), UpdateFlow(FlowE),
   FlowNoStatus, FlowTcpNoState, FlowSeenAssured}

\* the value of a filter field read out of a flow
OwnValue(f, x) ==
  CASE x = "family" -> IF IsIpv4(f.original.src_addr) THEN "Ipv4" ELSE "Ipv6"
    [] x = "protocol" -> f.protocol
    [] x = "tcp_state" -> Unwrap(f.tcp_state)
    [] x = "orig_src_addr" -> HostCidr(f.original.src_addr)
    [] x = "orig_dst_addr" -> HostCidr(f.original.dst_addr)
    [] x = "reply_src_addr" -> HostCidr(f.reply.src_addr)
    [] x = "reply_dst_addr" -> HostCidr(f.reply.dst_addr)
    [] x = "orig_src_port" -> f.original.src_port
    [] x = "orig_dst_port" -> f.original.dst_port
    [] x = "reply_src_port" -> f.reply.src_port
    [] x = "reply_dst_port" -> f.reply.dst_port
    [] x = "mark" -> Unwrap(f.mark)
    [] x = "use" -> Unwrap(f.use)
    [] OTHER -> f.status

\* whether the flow has a value for the field
HasOwn(f, x) ==
  CASE x = "tcp_state" -> IsSome(f.tcp_state)
    [] x = "mark" -> IsSome(f.mark)
    [] x = "use" -> IsSome(f.use)
    [] OTHER -> TRUE

\* the filter whose fields S are read out of the flow
OwnFilter(f, S) ==
  [x \in FilterFields |-> IF x \in S /\ HasOwn(f, x) THEN Some(OwnValue(f, x)) ELSE None]

\* values the setters of Filter are called with
FieldPool(x) ==
  CASE x = "family" -> {"Ipv4", "Ipv6", "Unspec"}
    [] x = "protocol" -> {ProtoTcp, ProtoUdp}
    [] x = "tcp_state" -> {"Established", "TimeWait"}
    [] x = "orig_src_addr" -> {Cidr(V4(1, 1, 1, 0), 24), HostCidr(V4(1, 1, 1, 2))}
    [] x = "orig_dst_addr" -> {HostCidr(V4(2, 2, 2, 2))}
    [] x = "reply_src_addr" -> {Cidr(V6(253, 0), 8)}
    [] x = "reply_dst_addr" -> {HostCidr(V4(4, 4, 4, 4))}
    [] x = "orig_src_port" -> {1234, 9}
    [] x = "orig_dst_port" -> {2345}
    [] x = "reply_src_port" -> {3456}
    [] x = "reply_dst_port" -> {4567}
    [] x = "mark" -> {1, 2}
    [] x = "use" -> {1}
    [] OTHER -> {{FlagAssured}, {FlagSeenReply}, {FlagSeenReply, FlagAssured},
                 {FlagExpected}}

\* the setters of Filter: one field set on a filter
FilterSet(g, x, v) == [g EXCEPT ![x] = Some(v)]

\* Bound: how many setters are called on a filter of PoolFilters.
MaxPoolFields == 2

\* the filters made by at most n setter calls with values of the pool
RECURSIVE FiltersOfSetters(_)
FiltersOfSetters(n) ==
  IF n = 0 THEN {FilterDefault}
  ELSE LET fewer == FiltersOfSetters(n - 1)
       IN  fewer \cup UNION { {FilterSet(g, x, v) : v \in FieldPool(x)} :
                                g \in fewer, x \in FilterFields }

PoolFilters == FiltersOfSetters(MaxPoolFields)

\* the flows whose own fields are given to the setters, every subset of them
OwnFlows == {UpdateFlow(FlowA), FlowNoStatus, FlowTcpNoState}

\* Filter::apply on the flow
Apply ==
  /\ mode = "filter"
  /\ lastOp = ""
  /\ out' = OutOk(<<FilterApply(Unwrap(filter), Unwrap(req))>>)
  /\ lastOp' = "apply"
  /\ UNCHANGED <<mode, handle, filter, sent, mock, recvAcc, req, inp, sockOut, hist>>

\* the filter and the flow given to apply: a filter of PoolFilters with any
\* flow, or a flow with a filter of its own fields
InitFilter ==
  /\ mode = "filter"
  /\ handle = [open |-> FALSE, group |-> 0, typ |-> ""]
  /\ \/ \E g \in PoolFilters, f \in FilterFlows : filter = Some(g) /\ req = Some(f)
     \/ \E f \in OwnFlows, S \in SUBSET FilterFields :
          filter = Some(OwnFilter(f, S)) /\ req = Some(f)
  /\ sent = [n |-> 0, last |-> None]
  /\ mock = MockWithEvent(<<>>, <<>>)
  /\ recvAcc = RecvIdle
  /\ inp = ReadNone
  /\ lastOp = ""
  /\ sockOut = PollNothing
  /\ out = PollNothing
  /\ hist = HistInit

NextFilter == Apply

SpecFilter == InitFilter /\ [][NextFilter]_vars

(***************************************************************************)
(* GetCmd alone: the eight optional tuple fields of the get command, its   *)
(* validation and the request it makes.  req holds the command, sockOut    *)
(* the result of validate, out the request or the error.                   *)
(***************************************************************************)
OrigFields == {"orig_src_addr", "orig_dst_addr", "orig_src_port", "orig_dst_port"}
ReplyFields == {"reply_src_addr", "reply_dst_addr", "reply_src_port", "reply_dst_port"}

\* the value each field is given on the command line, when it is given
GetFieldValue(x) ==
  CASE x = "orig_src_addr" -> FlowA.original.src_addr
    [] x = "orig_dst_addr" -> FlowA.original.dst_addr
    [] x = "orig_src_port" -> FlowA.original.src_port
    [] x = "orig_dst_port" -> FlowA.original.dst_port
    [] x = "reply_src_addr" -> FlowA.reply.src_addr
    [] x = "reply_dst_addr" -> FlowA.reply.dst_addr
    [] x = "reply_src_port" -> FlowA.reply.src_port
    [] OTHER -> FlowA.reply.dst_port

\* the command with exactly the fields S given
GetCmd(S) ==
  [x \in OrigFields \cup ReplyFields |-> IF x \in S THEN Some(GetFieldValue(x)) ELSE None]

GetCmds == { GetCmd(S) : S \in SUBSET (OrigFields \cup ReplyFields) }

ValidationError(k) == MkErr("Validation", k, "", 0)

\* a validate that looks at each direction by itself
GetCmdValidateEachAlone(cmd) ==
  LET orig_and == \A x \in OrigFields : IsSome(cmd[x])
      reply_and == \A x \in ReplyFields : IsSome(cmd[x])
      orig_or == \E x \in OrigFields : IsSome(cmd[x])
      reply_or == \E x \in ReplyFields : IsSome(cmd[x])
  IN  IF ~orig_or /\ ~reply_or THEN Err(ValidationError("Missing"))
      ELSE IF ~orig_and /\ orig_or THEN Err(ValidationError("Orig"))
      ELSE IF ~reply_and /\ reply_or THEN Err(ValidationError("Reply"))
      ELSE Ok(<<orig_and, reply_and>>)

\* GetCmd::validate
GetCmdValidate(cmd) ==
  LET orig_and == /\ IsSome(cmd.orig_src_addr) /\ IsSome(cmd.orig_dst_addr)
                  /\ IsSome(cmd.orig_src_port) /\ IsSome(cmd.orig_dst_port)
      reply_and == /\ IsSome(cmd.reply_src_addr) /\ IsSome(cmd.reply_dst_addr)
                   /\ IsSome(cmd.reply_src_port) /\ IsSome(cmd.reply_dst_port)
      orig_or == \/ IsSome(cmd.orig_src_addr) \/ IsSome(cmd.orig_dst_addr)
                 \/ IsSome(cmd.orig_src_port) \/ IsSome(cmd.orig_dst_port)
      reply_or == \/ IsSome(cmd.reply_src_addr) \/ IsSome(cmd.reply_dst_addr)
                  \/ IsSome(cmd.reply_src_port) \/ IsSome(cmd.reply_dst_port)
      orig_accepted == orig_and /\ orig_or
      reply_accepted == reply_and /\ reply_or
  IN  IF (~orig_accepted /\ ~reply_accepted) /\ (~orig_or /\ ~reply_or)
      THEN Err(ValidationError("Missing"))
      ELSE IF orig_or /\ reply_or /\ ~orig_accepted /\ ~reply_accepted
      THEN Err(ValidationError("Missing"))
      ELSE IF ~orig_accepted /\ orig_or THEN Err(ValidationError("Orig"))
      ELSE IF ~reply_accepted /\ reply_or THEN Err(ValidationError("Reply"))
      ELSE Ok(<<orig_accepted, reply_accepted>>)

\* GetCmd::get_tuples
GetCmdGetTuples(cmd) ==
  LET v == GetCmdValidate(cmd) IN
  IF ~v.ok THEN Err(v.err)
  ELSE IF Unwrap(v.val)[1]
  THEN Ok([dir |-> "Orig",
           tuple |-> Tuple(Unwrap(cmd.orig_src_addr), Unwrap(cmd.orig_dst_addr),
                           Unwrap(cmd.orig_src_port), Unwrap(cmd.orig_dst_port))])
  ELSE IF Unwrap(v.val)[2]
  THEN Ok([dir |-> "Reply",
           tuple |-> Tuple(Unwrap(cmd.reply_src_addr), Unwrap(cmd.reply_dst_addr),
                           Unwrap(cmd.reply_src_port), Unwrap(cmd.reply_dst_port))])
  ELSE Err(ValidationError("Missing"))

\* GetOperation::request, for the table, family and protocol of the command
GetOperationRequest(table, family, protocol, directed_tuple) ==
  RequestNew(RequestMeta(family, table, 0, FALSE),
             OpGet(GetParamsNew(protocol, directed_tuple)))

\* GetCmd::run up to the request: get_tuples, then GetOperation::request
GetRun ==
  /\ mode = "get"
  /\ lastOp = ""
  /\ LET cmd == Unwrap(req)
         d == GetCmdGetTuples(cmd)
     IN  /\ sockOut' = OutOfResult(GetCmdValidate(cmd))
         /\ out' = IF d.ok
                   THEN OutOk(<<GetOperationRequest("Conntrack", "Ipv4", ProtoTcp,
                                                    Unwrap(d.val))>>)
                   ELSE PollErr(d.err)
  /\ lastOp' = "get"
  /\ UNCHANGED <<mode, handle, filter, sent, mock, recvAcc, req, inp, hist>>

InitGet ==
  /\ mode = "get"
  /\ handle = [open |-> FALSE, group |-> 0, typ |-> ""]
  /\ filter = None
  /\ sent = [n |-> 0, last |-> None]
  /\ mock = MockWithEvent(<<>>, <<>>)
  /\ recvAcc = RecvIdle
  /\ \E cmd \in GetCmds : req = Some(cmd)
  /\ inp = ReadNone
  /\ lastOp = ""
  /\ sockOut = PollNothing
  /\ out = PollNothing
  /\ hist = HistInit

NextGet == GetRun

SpecGet == InitGet /\ [][NextGet]_vars

(***************************************************************************)
(* The two conversions between Flow and CtNetlinkMessage alone.  req holds *)
(* the flow given to the serializer, sockOut the message (built by the     *)
(* serializer or given), out the result of the decoder.                    *)
(***************************************************************************)
\* impl TryFrom<&Flow> for CtNetlinkMessage as a whole: the unwrap of the
\* TCP state of a TCP flow that has none panics
FlowTryToMessage(flow) ==
  IF flow.protocol.kind = "Tcp" /\ IsNone(flow.tcp_state)
  THEN Err(MkErr("Panic", "unwrap", "tcp_state", 0))
  ELSE Ok(CtMsg("New", Some(FlowToNlas(flow))))

\* impl TryFrom<&CtNetlinkMessage> for Flow
FlowTryFrom(msg) ==
  IF msg.type # "New" THEN Err(MkErr("Flow", "InvalidMessageType", msg.type, 0))
  ELSE LET b == FlowBuilderTryFrom(Unwrap(msg.nlas))
       IN  IF b.ok THEN FlowBuilderBuild(Unwrap(b.val)) ELSE Err(b.err)

\* the flows given to the serializer: values of struct Flow, whose fields
\* are independent of each other.  Among them are a Tcp flow without a state
\* (what the decoder gives for a message without protocol info), a flow of
\* another protocol with a state (what the decoder gives for a Udp tuple
\* with the protocol info of Tcp), Other(6) and Other(17), and tuples of
\* two address families.
RtProtocols ==
  {ProtoTcp, ProtoUdp, ProtoOther(1), ProtoOther(6), ProtoOther(17), ProtoOther(255)}
RtTcpStates == {None} \cup {Some(TcpStates[i]) : i \in 1..Len(TcpStates)}
RtTuples ==
  { <<FlowA.original, FlowA.reply>>, <<FlowE.original, FlowE.reply>>,
    <<FlowA.original, FlowE.reply>> }
RtStatuses ==
  { {}, {FlagAssured}, {FlagSeenReply, FlagAssured}, 0..(NumStatusFlags - 1),
    {NumStatusFlags - 1} }
RtFlows ==
  { [original |-> t[1], reply |-> t[2], protocol |-> p, mark |-> m, use |-> 1,
     tcp_state |-> st, status |-> status, timeout |-> timeout] :
      t \in RtTuples, p \in RtProtocols, m \in {0, 1}, st \in RtTcpStates,
      status \in RtStatuses, timeout \in {0, 1000} }

\* the top-level attributes a flow is built from; protocol is the Protocol
\* attribute inside the reply tuple
TopAttrs == {"original", "reply", "protocol", "mark", "use", "timeout", "status"}

\* a message with the attributes S, in the order the kernel writes them,
\* with or without the id attribute
MsgOfAttrs(S, withId, type) ==
  CtMsg(type, Some(
    (IF "original" \in S
     THEN <<NlaOrig(<<NlaIp(V4(1, 1, 1, 1), V4(2, 2, 2, 2)), NlaProto(1234, 2345, 6)>>)>>
     ELSE <<>>)
    \o (IF "reply" \in S
        THEN <<NlaReply(<<NlaIp(V4(3, 3, 3, 3), V4(4, 4, 4, 4))>>
                        \o (IF "protocol" \in S THEN <<NlaProto(3456, 4567, 6)>>
                            ELSE <<>>))>>
        ELSE <<>>)
    \o (IF withId THEN <<NlaId(7)>> ELSE <<>>)
    \o (IF "status" \in S THEN <<NlaStatus(StatusToU16(StatusAssured))>> ELSE <<>>)
    \o (IF "timeout" \in S THEN <<NlaTimeout(1000)>> ELSE <<>>)
    \o (IF "mark" \in S THEN <<NlaMark(1)>> ELSE <<>>)
    \o (IF "use" \in S THEN <<NlaUse(1)>> ELSE <<>>)))

\* the messages given to the decoder: a protocol attribute is there only
\* inside a reply tuple
FlowMsgs ==
  { MsgOfAttrs(S, withId, type) :
      S \in {T \in SUBSET TopAttrs : "protocol" \in T => "reply" \in T},
      withId \in BOOLEAN, type \in {"New", "Delete"} }

\* CtNetlinkMessage::try_from(&flow)
Serialize ==
  /\ mode = "flow"
  /\ lastOp = ""
  /\ IsSome(req)
  /\ LET r == FlowTryToMessage(Unwrap(req))
     IN  sockOut' = IF r.ok THEN PollBatch(<<Unwrap(r.val)>>) ELSE PollErr(r.err)
  /\ lastOp' = "serialize"
  /\ UNCHANGED <<mode, handle, filter, sent, mock, recvAcc, req, inp, out, hist>>

\* Flow::try_from(&msg) on the message in sockOut
DecodeFlow ==
  /\ mode = "flow"
  /\ lastOp \in {"", "serialize"}
  /\ sockOut.kind = "Batch"
  /\ LET r == FlowTryFrom(sockOut.items[1])
     IN  out' = IF r.ok THEN OutOk(<<Unwrap(r.val)>>) ELSE PollErr(r.err)
  /\ lastOp' = "decode_flow"
  /\ UNCHANGED <<mode, handle, filter, sent, mock, recvAcc, req, inp, sockOut, hist>>

\* a flow for the serializer, or a message for the decoder
InitFlow ==
  /\ mode = "flow"
  /\ handle = [open |-> FALSE, group |-> 0, typ |-> ""]
  /\ filter = None
  /\ sent = [n |-> 0, last |-> None]
  /\ mock = MockWithEvent(<<>>, <<>>)
  /\ recvAcc = RecvIdle
  /\ inp = ReadNone
  /\ lastOp = ""
  /\ out = PollNothing
  /\ hist = HistInit
  /\ \/ \E f \in RtFlows : req = Some(f) /\ sockOut = PollNothing
     \/ \E m \in FlowMsgs : req = None /\ sockOut = PollBatch(<<m>>)

NextFlow == Serialize \/ DecodeFlow

SpecFlow == InitFlow /\ [][NextFlow]_vars

(***************************************************************************)
(* Properties of the executor and the handle it returns (Spec).            *)
(***************************************************************************)
\* C4 as the specification states it: when the executor has run a Count or a
\* Stats operation, the socket it created is bound with group mask 0.
C4_CountStatsBindMaskZero ==
  (lastOp = "exec" /\ handle.typ \in {"Counter", "Stats"}) => handle.group = 0

\* C4, the state the code reaches: the executor has run a Count operation and
\* the socket is subscribed to the New group.
C4_CountBoundToNew ==
  /\ lastOp = "exec"
  /\ handle.typ = "Counter"
  /\ handle.open
  /\ handle.group = MessageTypeNew

\* C5: a request whose operation is Event sends nothing and leaves the
\* transport as it was, remembers the filter of the request and succeeds, so
\* that the caller has a handle to drain; when the executor makes it, the
\* socket is bound with the mask New|Update|Destroy = 7.
C5_EventSendsNothing ==
  [][(lastOp' \in {"exec", "request"} /\ IsSome(req') /\ Unwrap(req').op.type = "Event")
       => /\ IsNone(RequestMessage(Unwrap(req')))
          /\ sent' = (IF lastOp' = "exec" THEN [n |-> 0, last |-> None] ELSE sent)
          /\ filter' = Unwrap(req').op.filter
          /\ out' = OutOk(<<>>)
          /\ handle'.open
          /\ (lastOp' = "exec" => handle'.group = 7)]_vars

\* C5, its case: the executor has run the Event operation; the mask is 7,
\* nothing was sent and the filter of the operation is remembered.
C5_EventExecuted ==
  /\ lastOp = "exec"
  /\ handle.typ = "Event"
  /\ handle.open
  /\ handle.group = 7
  /\ sent.n = 0
  /\ filter = Some(FilterIpv4)

(***************************************************************************)
(* Properties of the Conntrack engine (SpecCt).                            *)
(***************************************************************************)
\* whether the conversion of some envelope of a batch fails
HasUndecodable(items) == \E i \in 1..Len(items) : ~EventTryFrom(items[i]).ok

\* the error of the first envelope of a batch whose conversion fails
FirstDecodeError(items) ==
  LET i == CHOOSE j \in 1..Len(items) :
             /\ ~EventTryFrom(items[j]).ok
             /\ \A k \in 1..(j - 1) : EventTryFrom(items[k]).ok
  IN  EventTryFrom(items[i]).err

\* the events of a batch all of whose envelopes convert
DecodedEvents(items) == [i \in 1..Len(items) |-> Unwrap(EventTryFrom(items[i]).val)]

\* the events a remembered filter lets through: flows the filter accepts
AcceptedFlows(f, events) ==
  SelectSeq(events, LAMBDA e : e.ev = "Flow" /\ FilterApply(f, Unwrap(e.flow)))

\* C8: a poll whose batch has an envelope that does not convert yields the
\* error of that conversion and no event of the batch, and leaves the
\* remembered filter as it was; the poll after such a failure, on a batch
\* whose envelopes all convert, yields that batch's events as usual.
C8_DecodeErrorReplacesBatch ==
  [][(lastOp' = "poll" /\ sockOut'.kind = "Batch")
       => /\ filter' = filter
          /\ HasUndecodable(sockOut'.items)
               => out' = PollErr(FirstDecodeError(sockOut'.items))
          /\ (/\ ~HasUndecodable(sockOut'.items)
              /\ lastOp = "poll" /\ sockOut.kind = "Batch" /\ out.kind = "Err")
               => /\ out'.kind = "Batch"
                  /\ out'.items =
                       IF IsSome(filter)
                       THEN AcceptedFlows(Unwrap(filter), DecodedEvents(sockOut'.items))
                       ELSE DecodedEvents(sockOut'.items)]_vars

\* C8, its case: the second envelope of a batch of two does not convert; the
\* poll yields the error and nothing of the first envelope.
C8_SecondEnvelopeFails ==
  /\ lastOp = "poll"
  /\ sockOut.kind = "Batch"
  /\ Len(sockOut.items) = 2
  /\ EventTryFrom(sockOut.items[1]).ok
  /\ ~EventTryFrom(sockOut.items[2]).ok
  /\ out.kind = "Err"
  /\ out.items = <<>>
  /\ out.err.e = "Flow"
  /\ IsSome(filter)

\* C9: the batch a poll yields holds, when no filter is remembered, the
\* events of all the envelopes; when a filter is remembered, the flows it
\* accepts and no Count or Stats event, whatever the filter.
C9_FilterAppliesToFlowsOnly ==
  (lastOp = "poll" /\ sockOut.kind = "Batch" /\ ~HasUndecodable(sockOut.items))
    => /\ out.kind = "Batch"
       /\ IsNone(filter) => out.items = DecodedEvents(sockOut.items)
       /\ IsSome(filter) =>
            /\ out.items = AcceptedFlows(Unwrap(filter), DecodedEvents(sockOut.items))
            /\ \A i \in 1..Len(out.items) : out.items[i].ev = "Flow"

\* C9, its case: the remembered filter has no field set and the batch holds
\* a flow and a Count event; the flow is kept and the Count event dropped.
C9_EmptyFilterDropsCount ==
  /\ lastOp = "poll"
  /\ filter = Some(FilterDefault)
  /\ sockOut.kind = "Batch"
  /\ Len(sockOut.items) = 2
  /\ ~HasUndecodable(sockOut.items)
  /\ \E i \in 1..2 : DecodedEvents(sockOut.items)[i].ev = "Count"
  /\ out.kind = "Batch"
  /\ Len(out.items) = 1
  /\ out.items[1].ev = "Flow"

(***************************************************************************)
(* Properties of the bare socket (SpecSock).                               *)
(***************************************************************************)
IsStop(f) == f.payload \in {"Done", "Error", "Malformed"}

\* the position of the first frame at which the parse of a datagram stops
\* (end-of-dump, error payload, bytes that do not parse), 0 if there is none
StopAt(buf) ==
  IF \E i \in 1..Len(buf) : IsStop(buf[i])
  THEN CHOOSE i \in 1..Len(buf) : IsStop(buf[i]) /\ \A j \in 1..(i - 1) : ~IsStop(buf[j])
  ELSE 0

\* the envelopes of the ctnetlink frames among the first n frames
EnvelopesOf(buf, n) ==
  LET fr == SelectSeq(SubSeq(buf, 1, n), LAMBDA f : f.payload = "Inner" /\ IsSome(f.ct))
  IN  [i \in 1..Len(fr) |-> Message(Unwrap(fr[i].ct), fr[i].flags, fr[i].res_id)]

\* whether the first stop of the datagram read last is a frame of payload p
StoppedBy(p) ==
  /\ inp.rd = "Data"
  /\ StopAt(inp.buf) > 0
  /\ inp.buf[StopAt(inp.buf)].payload = p

\* C1 as the specification states it: a poll that reads a datagram of one or
\* more ctnetlink frames followed by an end-of-dump frame yields the batch of
\* the envelopes of those frames.
C1_FramesBeforeDoneDelivered ==
  (/\ lastOp = "poll"
   /\ StoppedBy("Done")
   /\ StopAt(inp.buf) > 1
   /\ \A j \in 1..(StopAt(inp.buf) - 1) :
        inp.buf[j].payload = "Inner" /\ IsSome(inp.buf[j].ct))
    => out = PollBatch(EnvelopesOf(inp.buf, StopAt(inp.buf) - 1))

\* C1, the state the code reaches: the datagram held a ctnetlink frame and
\* then the end-of-dump frame, and the poll yielded end-of-sequence alone.
C1_FrameBeforeDoneLost ==
  /\ lastOp = "poll"
  /\ inp = ReadData(<<FrameCt(MsgFlowA, 0, 0), FrameDone>>)
  /\ out = PollEnd

\* C2 as the specification states it: a recv that an error payload ends
\* returns Ok with the envelopes accumulated so far when there are some, and
\* the error only when there are none.
C2_ErrorAfterEnvelopesReturnsOk ==
  (lastOp = "recv" /\ StoppedBy("Error"))
    => IF Len(recvAcc.events) > 0
       THEN out = OutOk(recvAcc.events)
       ELSE out.kind = "Err" /\ out.err.e = "NetlinkMessage"

\* C2, amended: recv goes on to the next datagram as long as the datagrams
\* hold no end-of-dump frame and no error; it returns Ok with the envelopes
\* accumulated so far on an end-of-dump frame, and on an error payload it
\* returns Err(NetlinkMessage(kind)) whether or not envelopes had been
\* accumulated.
C2_ErrorPayloadAlwaysErr ==
  /\ lastOp = "recv_wait" => (recvAcc.active /\ inp.rd = "Data" /\ StopAt(inp.buf) = 0)
  /\ lastOp = "recv" =>
       /\ ~recvAcc.active
       /\ inp.rd = "IoErr" \/ StopAt(inp.buf) > 0
       /\ StoppedBy("Done") => out = OutOk(recvAcc.events)
       /\ StoppedBy("Error") =>
            /\ out.kind = "Err"
            /\ out.items = <<>>
            /\ out.err.e = "NetlinkMessage"
            /\ out.err.k = "Other" => out.err.code = inp.buf[StopAt(inp.buf)].code

\* C2, its case: an error payload arrives when a recv holds envelopes, one
\* of them of an earlier datagram, and the recv returns the error.
C2_ErrorDiscardsAccumulated ==
  /\ lastOp = "recv"
  /\ StoppedBy("Error")
  /\ Len(recvAcc.events) > Len(EnvelopesOf(inp.buf, StopAt(inp.buf)))
  /\ Len(EnvelopesOf(inp.buf, StopAt(inp.buf))) > 0
  /\ out.kind = "Err"
  /\ out.err.e = "NetlinkMessage"

\* C7: a poll whose parse of the datagram meets a structured-error frame
\* yields Err(NetlinkMessage(kind)) with the kind of the signed code (-1 is
\* OperationNotPermitted, a code outside the table is Other(code)); and the
\* poll that follows such an error reads the next datagram and yields its
\* batch, or end-of-sequence at an end-of-dump frame.
C7_ErrorFrameYieldsErrNotEnd ==
  /\ (lastOp = "poll" /\ StoppedBy("Error")) =>
       LET c == inp.buf[StopAt(inp.buf)].code IN
       /\ out.kind = "Err"
       /\ out.err.e = "NetlinkMessage"
       /\ c = -1 => out.err.k = "OperationNotPermitted"
       /\ c \in {-1, -2, -5, -17, -22} <=> out.err.k # "Other"
       /\ out.err.k = "Other" => out.err.code = c
  /\ (lastOp = "poll" /\ hist.prevKind = "NetlinkMessage" /\ inp.rd = "Data") =>
       /\ StopAt(inp.buf) = 0 => out = PollBatch(EnvelopesOf(inp.buf, Len(inp.buf)))
       /\ StoppedBy("Done") => out = PollEnd

\* C7, its case: a poll yielded Err(NetlinkMessage(kind)) for a
\* structured-error frame, and the next poll yielded a batch with an envelope.
C7_BatchAfterNotPermitted ==
  /\ lastOp = "poll"
  /\ hist.prevKind = "NetlinkMessage"
  /\ ~hist.ended
  /\ out.kind = "Batch"
  /\ Len(out.items) > 0

(***************************************************************************)
(* Properties of the Conntrack over the mock (SpecMock).                   *)
(***************************************************************************)
\* the records the mock delivers for a family, in the order of delivery
RequestedData(m, family) ==
  CASE family = "Ipv4" -> m.ipv4_data
    [] family = "Ipv6" -> m.ipv6_data
    [] OTHER -> m.ipv4_data \o m.ipv6_data

TestMock == MockWithFlow(<<FlowA, FlowB, FlowC, FlowD>>, <<FlowE>>)

\* C10: when the drain that follows a List request the transport took
\* reaches end-of-sequence, the events drained are the flows delivered for
\* the requested family that the filter of the request accepts (all of them
\* without a filter), each once and in the order of delivery.  With the
\* flows of the test, family Unspec yields 5 flows, family Ipv4 yields 4,
\* tcp_state TimeWait with status Assured yields the TimeWait flow alone,
\* and the filter that matches nothing yields no flow.
C10_DrainYieldsAcceptedFlows ==
  (/\ lastOp = "poll" /\ out.kind = "End"
   /\ IsSome(req) /\ Unwrap(req).op.type = "List" /\ hist.accepted)
    => LET r == Unwrap(req)
           evs == DecodedEvents(RequestedData(mock, r.meta.family))
       IN  /\ hist.drained =
                IF IsSome(r.op.filter) THEN AcceptedFlows(Unwrap(r.op.filter), evs)
                ELSE evs
           /\ mock.ipv4_data = TestMock.ipv4_data /\ mock.ipv6_data = TestMock.ipv6_data
                => /\ (r.meta.family = "Unspec" /\ IsNone(r.op.filter))
                        => Len(hist.drained) = 5
                   /\ (r.meta.family = "Ipv4" /\ IsNone(r.op.filter))
                        => Len(hist.drained) = 4
                   /\ r.op.filter = Some(FilterTimeWaitAssured)
                        => hist.drained = <<EventFlow(UpdateFlow(FlowB))>>
                   /\ (r.meta.family = "Ipv6" /\ r.op.filter = Some(FilterTcp))
                        => hist.drained = <<>>

\* C10, its case: the flows of the test were drained to the end under the
\* filter tcp_state TimeWait with status Assured, and the TimeWait flow
\* alone was yielded.
C10_TimeWaitAssuredDrained ==
  /\ lastOp = "poll"
  /\ out.kind = "End"
  /\ hist.accepted
  /\ filter = Some(FilterTimeWaitAssured)
  /\ Len(mock.ipv4_data) = 4
  /\ hist.drained = <<EventFlow(UpdateFlow(FlowB))>>

(***************************************************************************)
(* Properties of the lazy sequence of either transport (SpecSeq).          *)
(***************************************************************************)
\* C6 as the specification states it: once a poll has yielded
\* end-of-sequence, every later poll yields end-of-sequence (or nothing yet).
C6_EndIsFinal ==
  (hist.ended /\ lastOp = "poll") => out.kind \in {"End", "Pending"}

\* C6, amended: neither transport remembers that it has yielded
\* end-of-sequence.  A poll of the kernel socket yields what the datagram it
\* reads holds, after an end-of-sequence as before it.  The mock forgets the
\* request and its cursors when it yields end-of-sequence; the poll after
\* that yields the error "request is not received yet", and the poll after a
\* new request the mock has taken yields the first record of the requested
\* family again.
C6_EndIsNotRemembered ==
  /\ (mode = "sock" /\ hist.ended /\ lastOp = "poll" /\ inp.rd = "Data") =>
       /\ StopAt(inp.buf) = 0 => out = PollBatch(EnvelopesOf(inp.buf, Len(inp.buf)))
       /\ StoppedBy("Done") => out = PollEnd
       /\ StoppedBy("Error") => out.kind = "Err"
  /\ (mode = "mock" /\ lastOp = "poll" /\ sockOut.kind = "End") =>
       /\ IsNone(mock.request)
       /\ mock.ipv4_index = 0
       /\ mock.ipv6_index = 0
  /\ (mode = "mock" /\ lastOp = "poll" /\ hist.prevKind = "End") =>
       out = PollErr(MkErr("Recv", "", "request is not received yet", 0))
  /\ (mode = "mock" /\ lastOp = "poll" /\ hist.ended /\ hist.prevKind = ""
        /\ hist.accepted /\ RequestedData(mock, Unwrap(req).meta.family) # <<>>) =>
       sockOut = PollBatch(<<RequestedData(mock, Unwrap(req).meta.family)[1]>>)

\* C6, its case: after an end-of-sequence and a new request, a poll of the
\* handle over the mock yields a batch with a flow again.
C6_BatchAfterEnd ==
  /\ mode = "mock"
  /\ hist.ended
  /\ lastOp = "poll"
  /\ out.kind = "Batch"
  /\ Len(out.items) = 1

(***************************************************************************)
(* Properties of Request::message (SpecMsg).                               *)
(***************************************************************************)
\* C3 as the specification states it: every frame Request::message returns
\* has the request bit set in its flag word.
C3_RequestBitSet ==
  (lastOp = "message" /\ IsSome(sent.last))
    => BitAnd(Unwrap(sent.last).flags, NLM_F_REQUEST) = NLM_F_REQUEST

\* C3, the state the code reaches: the frame of a Get request on the Dying
\* table has no flag at all.
C3_GetDyingWithoutRequestBit ==
  /\ lastOp = "message"
  /\ Unwrap(req).op.type = "Get"
  /\ Unwrap(req).meta.table = "Dying"
  /\ IsSome(sent.last)
  /\ Unwrap(sent.last).flags = 0

(***************************************************************************)
(* Order of delivery (SpecCt).                                             *)
(***************************************************************************)
\* whether a[i..] is a subsequence of b[j..], the order kept
RECURSIVE IsSubseqFrom(_, _, _, _)
IsSubseqFrom(a, i, b, j) ==
  IF i > Len(a) THEN TRUE
  ELSE IF j > Len(b) THEN FALSE
  ELSE IF a[i] = b[j] THEN IsSubseqFrom(a, i + 1, b, j + 1)
  ELSE IsSubseqFrom(a, i, b, j + 1)

\* C11: the batch the transport yields for a datagram lists the envelopes of
\* the datagram's ctnetlink frames in the order of the frames, and holds
\* nothing of another datagram (one datagram, one batch); the batch of
\* events Conntrack yields for it is a subsequence of the events of those
\* envelopes, in the same order.
C11_OrderPreserved ==
  (lastOp = "poll" /\ sockOut.kind = "Batch")
    => /\ inp.rd = "Data"
       /\ sockOut.items = EnvelopesOf(inp.buf, Len(inp.buf))
       /\ (out.kind = "Batch" /\ ~HasUndecodable(sockOut.items))
            => IsSubseqFrom(out.items, 1, DecodedEvents(sockOut.items), 1)
       /\ ~HasUndecodable(sockOut.items) => out.kind = "Batch"

\* C11, its case: a datagram of three ctnetlink frames gave a batch of three
\* envelopes, of which the remembered filter kept the first and the third.
C11_ThreeFramesTwoKept ==
  /\ lastOp = "poll"
  /\ Len(inp.buf) = 3
  /\ sockOut.kind = "Batch"
  /\ Len(sockOut.items) = 3
  /\ sockOut.items[1] # sockOut.items[3]
  /\ ~HasUndecodable(sockOut.items)
  /\ IsSome(filter)
  /\ out.kind = "Batch"
  /\ out.items = <<DecodedEvents(sockOut.items)[1], DecodedEvents(sockOut.items)[3]>>

(***************************************************************************)
(* Properties of the decoded flows (SpecDec).                              *)
(***************************************************************************)
\* the attributes of the envelope decoded last
DecodedNlas == Unwrap(sockOut.items[1].msg.nlas)

\* the flow decoded last, when the conversion succeeded
DecodedFlow == Unwrap(out.items[1].flow)

\* C12 as the specification states it: every flow the decoder produces has
\* a TCP state if and only if its protocol is Tcp.
C12_TcpStateIffTcp ==
  (lastOp = "decode" /\ out.kind = "Ok")
    => (IsSome(DecodedFlow.tcp_state) <=> DecodedFlow.protocol = ProtoTcp)

\* C12, the state the code reaches: an attribute list whose reply tuple has
\* protocol number 6 and that carries no protocol-info attribute decodes to
\* a flow of protocol Tcp without a TCP state.
C12_TcpFlowWithoutState ==
  /\ lastOp = "decode"
  /\ out.kind = "Ok"
  /\ DecodedFlow.protocol = ProtoTcp
  /\ IsNone(DecodedFlow.tcp_state)
  /\ \A i \in 1..Len(DecodedNlas) : DecodedNlas[i].t # "ProtocolInfo"

\* whether a tuple group carries the addresses and the ports
TupleGroupComplete(tn) ==
  /\ \E j \in 1..Len(tn) : tn[j].t = "Ip"
  /\ \E j \in 1..Len(tn) : tn[j].t = "Protocol"

\* whether an attribute list carries both tuple groups, each complete
InputTuplesComplete(nlas) ==
  \A t \in {"Orig", "Reply"} :
    /\ \E i \in 1..Len(nlas) : nlas[i].t = t
    /\ \A i \in 1..Len(nlas) : nlas[i].t = t => TupleGroupComplete(nlas[i].tuple)

\* the four addresses of a flow
FlowAddrs(f) ==
  {f.original.src_addr, f.original.dst_addr, f.reply.src_addr, f.reply.dst_addr}

\* C13 as the specification states it: an attribute list without two
\* complete tuple groups is rejected with an error, and the four addresses
\* of every flow the decoder produces are of one family.
C13_TuplesCompleteSameFamily ==
  lastOp = "decode"
    => /\ ~InputTuplesComplete(DecodedNlas) => out.kind = "Err"
       /\ out.kind = "Ok" =>
            \/ \A a \in FlowAddrs(DecodedFlow) : IsIpv4(a)
            \/ \A a \in FlowAddrs(DecodedFlow) : IsIpv6(a)

\* C13, the state the code reaches: a flow is produced whose original tuple
\* is IPv4 and whose reply tuple is IPv6.
C13_MixedFamiliesDecoded ==
  /\ lastOp = "decode"
  /\ out.kind = "Ok"
  /\ IsIpv4(DecodedFlow.original.src_addr)
  /\ IsIpv4(DecodedFlow.original.dst_addr)
  /\ IsIpv6(DecodedFlow.reply.src_addr)
  /\ IsIpv6(DecodedFlow.reply.dst_addr)

(***************************************************************************)
(* Properties of the Status conversions (SpecStatus).                      *)
(***************************************************************************)
\* C14: for every 16-bit value v, the Status made from v holds the flags of
\* the bits of v among the 15 defined positions, and the value made from
\* that Status is v with the bit above them cleared: v itself when that
\* bit is not set.
C14_StatusRoundTrip ==
  lastOp = "status"
    => LET v == Unwrap(req) IN
       /\ out.kind = "Ok"
       /\ out.items[1] = v % Pow2(NumStatusFlags)
       /\ v < Pow2(NumStatusFlags) => out.items[1] = v
       /\ sockOut.items[1] =
            {i \in 0..(NumStatusFlags - 1) : (v \div Pow2(i)) % 2 = 1}

\* C14, its case: the value has the undefined bit 15 set next to SeenReply
\* and Assured; the round trip gives SeenReply|Assured = 6.
C14_UnknownBitDropped ==
  /\ lastOp = "status"
  /\ Unwrap(req) = Pow2(15) + Pow2(FlagAssured) + Pow2(FlagSeenReply)
  /\ sockOut.items[1] = {FlagSeenReply, FlagAssured}
  /\ out.items[1] = 6

(***************************************************************************)
(* Properties of Filter::apply (SpecFilter).                               *)
(***************************************************************************)
\* the fields a filter sets
SetFields(F) == {x \in FilterFields : IsSome(F[x])}

\* whether every field the filter sets is read out of the flow
IsOwnFilter(F, f) ==
  \A x \in SetFields(F) : HasOwn(f, x) /\ F[x] = Some(OwnValue(f, x))

\* the filter that sets the fields S of F as F does, and no other
Restrict(F, S) == [x \in FilterFields |-> IF x \in S THEN F[x] ELSE None]

\* the setters of the fields S of F, called on g one after the other
RECURSIVE SetFieldsOf(_, _, _)
SetFieldsOf(g, F, S) ==
  IF S = {} THEN g
  ELSE LET x == CHOOSE y \in S : TRUE
       IN  SetFieldsOf(FilterSet(g, x, Unwrap(F[x])), F, S \ {x})

\* the filter made by the setters of A, then those of B
FilterMerge(A, B) ==
  SetFieldsOf(SetFieldsOf(FilterDefault, A, SetFields(A)), B, SetFields(B))

\* what apply returned
Accepted == out.items[1]

\* C15 as the specification states it: a filter whose set fields are all
\* read out of the flow accepts the flow.
C15_OwnFilterAccepts ==
  (lastOp = "apply" /\ IsOwnFilter(Unwrap(filter), Unwrap(req))) => Accepted

\* C15, amended: the filter without a field accepts every flow; a filter
\* whose set fields are all read out of the flow accepts the flow, except
\* that it rejects the flow when it sets status and the flow has no status
\* flag.
C15_OwnFilterAcceptsUnlessFlagless ==
  lastOp = "apply"
    => LET F == Unwrap(filter)
           f == Unwrap(req)
       IN  /\ F = FilterDefault => Accepted
           /\ IsOwnFilter(F, f) => (Accepted <=> (IsSome(F.status) => f.status # {}))

\* C15, its case: the filter sets every field, each read out of the flow,
\* and accepts it.
C15_AllOwnFieldsAccepted ==
  /\ lastOp = "apply"
  /\ SetFields(Unwrap(filter)) = FilterFields
  /\ IsOwnFilter(Unwrap(filter), Unwrap(req))
  /\ Accepted

\* Bound: the filters whose every split into two is looked at set at most
\* this many fields.
MaxSplitFields == 3

\* C16: a filter accepts a flow if and only if the filter of each of its
\* set fields alone accepts it; and for every split of its set fields into
\* two filters A and B, setting the fields of A then of B or of B then of A
\* gives the filter, which accepts the flow if and only if A and B both do.
C16_FieldsConjoin ==
  lastOp = "apply"
    => LET F == Unwrap(filter)
           f == Unwrap(req)
       IN  /\ Accepted <=> \A x \in SetFields(F) : FilterApply(Restrict(F, {x}), f)
           /\ Cardinality(SetFields(F)) <= MaxSplitFields =>
                \A S \in SUBSET SetFields(F) :
                  LET A == Restrict(F, S)
                      B == Restrict(F, SetFields(F) \ S)
                  IN  /\ FilterMerge(A, B) = F
                      /\ FilterMerge(B, A) = F
                      /\ Accepted <=> (FilterApply(A, f) /\ FilterApply(B, f))

\* C16, its case: the filter sets the protocol, which the flow has, and the
\* original source port, which the flow has not; it rejects the flow.
C16_OneOfTwoFieldsFails ==
  /\ lastOp = "apply"
  /\ SetFields(Unwrap(filter)) = {"protocol", "orig_src_port"}
  /\ FilterApply(Restrict(Unwrap(filter), {"protocol"}), Unwrap(req))
  /\ ~FilterApply(Restrict(Unwrap(filter), {"orig_src_port"}), Unwrap(req))
  /\ ~Accepted

\* C17: a filter that sets only status accepts a flow if and only if the
\* filter and the flow share a status flag.
C17_StatusSharesAFlag ==
  (lastOp = "apply" /\ SetFields(Unwrap(filter)) = {"status"})
    => (Accepted <=> Unwrap(Unwrap(filter).status) \cap Unwrap(req).status # {})

\* C17, its case: the filter asks for SeenReply or Assured and the flow is
\* Assured only; the flow is accepted.
C17_OneSharedFlagAccepted ==
  /\ lastOp = "apply"
  /\ SetFields(Unwrap(filter)) = {"status"}
  /\ Unwrap(Unwrap(filter).status) = {FlagSeenReply, FlagAssured}
  /\ Unwrap(req).status = {FlagAssured}
  /\ Accepted

\* C18: a filter that sets tcp_state rejects every flow without a TCP
\* state, whatever else it sets; a flow with a TCP state is accepted only
\* if the states are equal, and is accepted then when nothing else is set.
C18_TcpStateFilter ==
  (lastOp = "apply" /\ IsSome(Unwrap(filter).tcp_state))
    => LET F == Unwrap(filter)
           f == Unwrap(req)
       IN  /\ IsNone(f.tcp_state) => ~Accepted
           /\ (IsSome(f.tcp_state) /\ Accepted) => Unwrap(F.tcp_state) = Unwrap(f.tcp_state)
           /\ (IsSome(f.tcp_state) /\ SetFields(F) = {"tcp_state"})
                => (Accepted <=> Unwrap(F.tcp_state) = Unwrap(f.tcp_state))

\* C18, its case: the filter sets tcp_state and another field that the flow
\* passes; the flow has no TCP state and is rejected.
C18_StatelessFlowRejected ==
  /\ lastOp = "apply"
  /\ IsSome(Unwrap(filter).tcp_state)
  /\ Cardinality(SetFields(Unwrap(filter))) = 2
  /\ IsNone(Unwrap(req).tcp_state)
  /\ FilterApply(Restrict(Unwrap(filter), SetFields(Unwrap(filter)) \ {"tcp_state"}),
                 Unwrap(req))
  /\ ~Accepted

(***************************************************************************)
(* Properties of the event kinds (SpecDec).                                *)
(***************************************************************************)
\* whether bit 0x400 of a flag word is set, read off the number itself
HasCreateBit(flag) == (flag \div NLM_F_CREATE) % 2 = 1

\* the same envelope under another flag word
WithFlag(m, flag) == [m EXCEPT !.flag = flag]

\* a result with the event kind of its flow, if it has one, set to Update
SansKind(r) ==
  IF r.ok THEN [r EXCEPT !.val = <<[Unwrap(r.val) EXCEPT
                                      !.flow = <<[Unwrap(@) EXCEPT !.event_type = MessageTypeUpdate]>>]>>]
  ELSE r

\* C19: a decoded New envelope is a Flow event of kind New when bit 0x400 of
\* its flag word is set and of kind Update when it is not; a decoded Delete
\* envelope is a Flow event of kind Destroy; and the result of an envelope,
\* error or event, is the same under every flag word with the same create
\* bit, the same but for the kind under every flag word of a New envelope,
\* and the same under every flag word of a Delete envelope.
C19_KindFromTypeAndCreateBit ==
  lastOp = "decode"
    => LET m == sockOut.items[1]
           r == EventTryFrom(m)
       IN  /\ out.kind = "Ok" =>
                /\ out.items[1].ev = "Flow"
                /\ Unwrap(out.items[1].flow).event_type =
                     (IF m.msg.type = "Delete" THEN MessageTypeDestroy
                      ELSE IF HasCreateBit(m.flag) THEN MessageTypeNew
                      ELSE MessageTypeUpdate)
           /\ \A g \in DecFlags :
                LET q == EventTryFrom(WithFlag(m, g))
                IN  /\ SansKind(q) = SansKind(r)
                    /\ (m.msg.type = "Delete" \/ HasCreateBit(g) = HasCreateBit(m.flag))
                         => q = r

\* C19, its case: a Delete envelope with every bit of the flag word set was
\* decoded to a Flow event of kind Destroy.
C19_DeleteWithCreateBitDestroys ==
  /\ lastOp = "decode"
  /\ sockOut.items[1].msg.type = "Delete"
  /\ sockOut.items[1].flag = Pow2(16) - 1
  /\ out.kind = "Ok"
  /\ Unwrap(out.items[1].flow).event_type = MessageTypeDestroy

(***************************************************************************)
(* Properties of the get command (SpecGet).                                *)
(***************************************************************************)
\* how many fields of S the command gives
Given(cmd, S) == Cardinality({x \in S : IsSome(cmd[x])})

\* C20: with one to three original fields and no reply field the command
\* fails with the Orig validation error, with one to three reply fields and
\* no original field with Reply; with no field, or with one to three fields
\* of each direction, it fails with Missing; with all eight fields it makes
\* a Get request that carries the original tuple.
C20_GetValidation ==
  lastOp = "get"
    => LET cmd == Unwrap(req)
           no == Given(cmd, OrigFields)
           nr == Given(cmd, ReplyFields)
       IN  /\ (no \in 1..3 /\ nr = 0) => out = PollErr(ValidationError("Orig"))
           /\ (nr \in 1..3 /\ no = 0) => out = PollErr(ValidationError("Reply"))
           /\ ((no = 0 /\ nr = 0) \/ (no \in 1..3 /\ nr \in 1..3))
                => out = PollErr(ValidationError("Missing"))
           /\ (no = 4 /\ nr = 4)
                => /\ out.kind = "Ok"
                   /\ out.items[1].op.type = "Get"
                   /\ Unwrap(out.items[1].op.param).directed_tuple =
                        [dir |-> "Orig", tuple |-> FlowA.original]

\* C20, its case: all eight fields were given and the request carries the
\* original tuple.
C20_AllEightTakesOrig ==
  /\ lastOp = "get"
  /\ Given(Unwrap(req), OrigFields \cup ReplyFields) = 8
  /\ out.kind = "Ok"
  /\ Unwrap(out.items[1].op.param).directed_tuple.dir = "Orig"

\* C21: when all four fields of one direction and one to three fields of
\* the other are given, the command makes a Get request that carries the
\* tuple of the complete direction.
C21_PartialDirectionIgnored ==
  lastOp = "get"
    => LET cmd == Unwrap(req)
           no == Given(cmd, OrigFields)
           nr == Given(cmd, ReplyFields)
       IN  /\ (no = 4 /\ nr \in 1..3)
                => /\ out.kind = "Ok"
                   /\ Unwrap(out.items[1].op.param).directed_tuple =
                        [dir |-> "Orig", tuple |-> FlowA.original]
           /\ (nr = 4 /\ no \in 1..3)
                => /\ out.kind = "Ok"
                   /\ Unwrap(out.items[1].op.param).directed_tuple =
                        [dir |-> "Reply", tuple |-> FlowA.reply]

\* C21, its case: the four original fields and one reply field were given,
\* and the command failed with the Reply validation error.
C21_CompleteOrigPartialReplyFails ==
  /\ lastOp = "get"
  /\ Given(Unwrap(req), OrigFields) = 4
  /\ Given(Unwrap(req), ReplyFields) = 1
  /\ out = PollErr(ValidationError("Reply"))

(***************************************************************************)
(* Properties of the List frame (SpecMsg).                                 *)
(***************************************************************************)
\* C22: the frame of a List request has the inner message GetCrtZero(None)
\* when zero is set, whatever the table, and otherwise Get(None),
\* GetDying(None) or GetUnconfirmed(None) for the tables Conntrack, Dying
\* and Unconfirmed; its flag word is request|dump, and its family header
\* carries the family and the response id of the request.
C22_ListFrame ==
  (lastOp = "message" /\ Unwrap(req).op.type = "List")
    => LET meta == Unwrap(req).meta IN
       /\ IsSome(sent.last)
       /\ Unwrap(sent.last).inner =
            [type |-> IF meta.zero THEN "GetCrtZero"
                      ELSE IF meta.table = "Conntrack" THEN "Get"
                      ELSE IF meta.table = "Dying" THEN "GetDying"
                      ELSE "GetUnconfirmed",
             nlas |-> None]
       /\ Unwrap(sent.last).flags = NLM_F_REQUEST + NLM_F_ROOT + NLM_F_MATCH
       /\ Unwrap(sent.last).header.family =
            (IF meta.family = "Ipv4" THEN AF_INET
             ELSE IF meta.family = "Ipv6" THEN AF_INET6 ELSE AF_UNSPEC)
       /\ Unwrap(sent.last).header.res_id = meta.res_id

\* C22, its case: a List request on the Dying table with zero set and a
\* response id other than 0 gave the get-with-reset message.
C22_ZeroOnDyingResets ==
  /\ lastOp = "message"
  /\ Unwrap(req).op.type = "List"
  /\ Unwrap(req).meta.table = "Dying"
  /\ Unwrap(req).meta.zero
  /\ Unwrap(req).meta.res_id = MaxResId
  /\ Unwrap(sent.last).inner.type = "GetCrtZero"

(***************************************************************************)
(* Properties of the conversions between Flow and CtNetlinkMessage         *)
(* (SpecFlow).                                                             *)
(***************************************************************************)
\* whether the state is the end of a round trip: a flow was serialized and
\* the message decoded
RoundTripDone == lastOp = "decode_flow" /\ IsSome(req)

\* equality of two flows on the fields S
SameOn(f, g, S) == \A x \in S : f[x] = g[x]

\* whether a flow is a Flow of the specification: it has a TCP state exactly
\* when its protocol is Tcp, and a protocol with a number of its own is
\* neither 6 nor 17, which are Tcp and Udp
IsSpecFlow(f) ==
  /\ (f.protocol = ProtoTcp) <=> IsSome(f.tcp_state)
  /\ f.protocol \notin {ProtoOther(6), ProtoOther(17)}

\* C23: every Flow of the specification is serialized successfully, to a New
\* message, and the message is decoded to a flow equal to it on the
\* original tuple, the reply tuple, protocol, tcp_state, mark, use, timeout
\* and status; the flows are Tcp flows with each of the ten states, Udp
\* flows and flows of another protocol number, with IPv4 and with IPv6
\* tuples.
C23_RoundTripEqual ==
  /\ (lastOp = "serialize" /\ IsSome(req) /\ IsSpecFlow(Unwrap(req)))
       => /\ sockOut.kind = "Batch"
          /\ sockOut.items[1].type = "New"
  /\ (RoundTripDone /\ IsSpecFlow(Unwrap(req)))
       => /\ out.kind = "Ok"
          /\ SameOn(Unwrap(req), out.items[1],
                    {"original", "reply", "protocol", "tcp_state", "mark", "use",
                     "timeout", "status"})

\* C23, its case: a flow of protocol number 255 with IPv6 tuples, without a
\* TCP state, was serialized and decoded, and the decoded flow is the flow
\* that was serialized.
C23_OtherProtocolV6RoundTrip ==
  /\ RoundTripDone
  /\ Unwrap(req).protocol = ProtoOther(255)
  /\ IsIpv6(Unwrap(req).original.src_addr)
  /\ IsNone(Unwrap(req).tcp_state)
  /\ out = OutOk(<<Unwrap(req)>>)

\* the top-level attributes a message has
AttrsOf(msg) ==
  LET nlas == Unwrap(msg.nlas)
      has(t) == \E i \in 1..Len(nlas) : nlas[i].t = t
  IN  {x \in TopAttrs :
         CASE x = "original" -> has("Orig")
           [] x = "reply" -> has("Reply")
           [] x = "protocol" ->
                \E i \in 1..Len(nlas) :
                  /\ nlas[i].t = "Reply"
                  /\ \E j \in 1..Len(nlas[i].tuple) : nlas[i].tuple[j].t = "Protocol"
           [] x = "mark" -> has("Mark")
           [] x = "use" -> has("Use")
           [] x = "timeout" -> has("Timeout")
           [] OTHER -> has("Status")}

\* whether a message has the id attribute
HasId(msg) == \E i \in 1..Len(Unwrap(msg.nlas)) : Unwrap(msg.nlas)[i].t = "Id"

\* the field names a MissingField error may carry when the attributes S are
\* there: a missing attribute, or, for a reply tuple without its protocol
\* attribute, the source port that attribute would bring
MissingNames(S) ==
  ((TopAttrs \ S) \ (IF "reply" \in S THEN {"protocol"} ELSE {}))
    \cup (IF "reply" \in S /\ "protocol" \notin S THEN {"src_port"} ELSE {})

\* C24: decoding a New message that lacks any of the original tuple, the
\* reply tuple, protocol, mark, use, timeout and status fails with
\* MissingField naming a field that is missing, and gives a flow when all
\* seven are there; the outcome is the same with and without the id
\* attribute.
C24_AllSevenOrMissingField ==
  (lastOp = "decode_flow" /\ IsNone(req) /\ sockOut.items[1].type = "New")
    => LET m == sockOut.items[1]
           S == AttrsOf(m)
       IN  /\ m = MsgOfAttrs(S, HasId(m), "New")
           /\ S = TopAttrs <=> out.kind = "Ok"
           /\ S # TopAttrs =>
                /\ out.kind = "Err"
                /\ out.err.e = "Flow" /\ out.err.k = "MissingField"
                /\ out.err.arg \in MissingNames(S)
           /\ FlowTryFrom(MsgOfAttrs(S, ~HasId(m), "New")) = FlowTryFrom(m)

\* C24, its case: a message with every attribute but the mark, and without
\* the id attribute, was refused with MissingField(mark).
C24_OnlyMarkMissing ==
  /\ lastOp = "decode_flow"
  /\ IsNone(req)
  /\ sockOut.items[1].type = "New"
  /\ AttrsOf(sockOut.items[1]) = TopAttrs \ {"mark"}
  /\ ~HasId(sockOut.items[1])
  /\ out = PollErr(MkErr("Flow", "MissingField", "mark", 0))

(***************************************************************************)
(* Properties of Conntrack::recv_once (SpecCt).                            *)
(***************************************************************************)
\* C25: recv_once returns the event of every envelope the socket's
\* recv_once gave, in order, whatever the remembered filter is; if an
\* envelope does not convert, it returns the error of the first that does
\* not; an error of the socket is returned as it is.
C25_RecvOnceNeverFilters ==
  lastOp = "recv_once"
    => IF sockOut.kind = "Ok"
       THEN LET msgs == sockOut.items
                bad == {i \in 1..Len(msgs) : ~EventTryFrom(msgs[i]).ok}
            IN  IF bad = {}
                THEN out = OutOk([i \in 1..Len(msgs) |-> Unwrap(EventTryFrom(msgs[i]).val)])
                ELSE out = PollErr(EventTryFrom(
                                     msgs[CHOOSE i \in bad : \A j \in bad : i <= j]).err)
       ELSE out = sockOut

\* C25, its case: with a filter remembered, recv_once returned a flow the
\* filter rejects, a Count event and another flow.
C25_RejectedFlowAndCountReturned ==
  /\ lastOp = "recv_once"
  /\ IsSome(filter)
  /\ out.kind = "Ok"
  /\ Len(out.items) = 3
  /\ out.items[1].ev = "Flow"
  /\ ~FilterApply(Unwrap(filter), Unwrap(out.items[1].flow))
  /\ out.items[2].ev = "Count"

(***************************************************************************)
(* Properties of the socket's recv_once (SpecSock).                        *)
(***************************************************************************)
\* the envelopes of the frames of buf before position k, in order
RECURSIVE EnvelopesBefore(_, _)
EnvelopesBefore(buf, k) ==
  IF k <= 1 THEN <<>>
  ELSE LET f == buf[k - 1]
       IN  EnvelopesBefore(buf, k - 1)
             \o (IF f.payload = "Inner" /\ IsSome(f.ct)
                 THEN <<Message(Unwrap(f.ct), f.flags, f.res_id)>> ELSE <<>>)

\* C26: recv_once on one datagram is decided by the first frame that is an
\* end-of-dump frame, an error payload or a frame that does not parse: at
\* an end-of-dump frame it returns Ok with exactly the envelopes of the
\* frames before it, whatever follows in the datagram; at an error payload
\* it returns Err(NetlinkMessage(kind)) and no envelope; without such a
\* frame it returns the envelopes of the whole datagram.
C26_RecvOnceStopsAtDone ==
  (lastOp = "recv_once" /\ inp.rd = "Data")
    => LET buf == inp.buf
           stop == {i \in 1..Len(buf) : buf[i].payload \in {"Done", "Error", "Malformed"}}
       IN  IF stop = {} THEN out = OutOk(EnvelopesBefore(buf, Len(buf) + 1))
           ELSE LET k == CHOOSE i \in stop : \A j \in stop : i <= j
                IN  CASE buf[k].payload = "Done" -> out = OutOk(EnvelopesBefore(buf, k))
                      [] buf[k].payload = "Error" ->
                           /\ out.kind = "Err"
                           /\ out.err.e = "NetlinkMessage"
                           /\ out.err = NetlinkErrorFrom(buf[k].code)
                           /\ out.items = <<>>
                      [] OTHER -> out = PollErr(MkErr("Netfilter", "", "", 0))

\* C26, its case: the datagram has an envelope, an end-of-dump frame and an
\* error payload after it; recv_once returned the one envelope.
C26_ErrorAfterDoneIgnored ==
  /\ lastOp = "recv_once"
  /\ inp.rd = "Data"
  /\ Len(inp.buf) = 3
  /\ inp.buf[2].payload = "Done"
  /\ inp.buf[3].payload = "Error"
  /\ out.kind = "Ok"
  /\ Len(out.items) = 1

(***************************************************************************)
(* Properties of a poll of the engine (SpecCt).                            *)
(***************************************************************************)
\* C27: a poll of the engine, whatever it yields, leaves the remembered
\* filter, the last request, the frames sent and the handle as they were;
\* what it yields is made from the datagram it read and the remembered
\* filter alone, with no event of an earlier poll; and it yields Pending
\* exactly when no datagram was there to read.
C27_PollKeepsRequestState ==
  [][lastOp' = "poll"
       => /\ filter' = filter
          /\ req' = req
          /\ sent' = sent
          /\ handle' = handle
          /\ out' = ConntrackPollNext(filter, NfPollNext(inp'))
          /\ out'.kind = "Batch" =>
               Len(out'.items) <= Len(EnvelopesBefore(inp'.buf, Len(inp'.buf) + 1))
          /\ out'.kind = "Pending" <=> inp'.rd = "Pending"]_vars

\* C27, its case: after a request with a filter, a poll yielded the end of
\* the sequence and the filter is still the one of the request.
C27_FilterKeptAfterEnd ==
  /\ lastOp = "poll"
  /\ out.kind = "End"
  /\ IsSome(filter)
  /\ IsSome(req)
  /\ filter = RequestFilter(Unwrap(req))

(***************************************************************************)
(* Properties of the mock transport (SpecMock).                            *)
(***************************************************************************)
\* C28: while a request of family Unspec is pending on a mock that holds a
\* message, each cursor is at most the length of its list and the IPv6
\* cursor has not moved before the IPv4 list is exhausted; a poll yields
\* the IPv4 message under the cursor alone and moves that cursor by one,
\* or, the IPv4 list exhausted, the same for the IPv6 list, or, both
\* exhausted, the end of the sequence; and when the end is yielded for a
\* request the transport took, without a filter, as many events have been
\* drained as the two lists hold messages.
C28_UnspecEmitsEachOnce ==
  [][(/\ lastOp' = "poll"
      /\ IsSome(mock.request)
      /\ Unwrap(mock.request).header.family = AF_UNSPEC
      /\ Len(mock.ipv4_data) + Len(mock.ipv6_data) >= 1)
       => LET n4 == Len(mock.ipv4_data)
              n6 == Len(mock.ipv6_data)
              i4 == mock.ipv4_index
              i6 == mock.ipv6_index
          IN  /\ i4 <= n4 /\ i6 <= n6
              /\ i6 > 0 => i4 = n4
              /\ IF i4 < n4
                 THEN /\ sockOut' = PollBatch(<<mock.ipv4_data[i4 + 1]>>)
                      /\ mock' = [mock EXCEPT !.ipv4_index = i4 + 1]
                 ELSE IF i6 < n6
                 THEN /\ sockOut' = PollBatch(<<mock.ipv6_data[i6 + 1]>>)
                      /\ mock' = [mock EXCEPT !.ipv6_index = i6 + 1]
                 ELSE sockOut' = PollEnd
              /\ (sockOut'.kind = "End" /\ hist.accepted /\ IsNone(filter))
                   => Len(hist'.drained) = n4 + n6]_vars

\* C28, its case: the last IPv6 message of a mock with four IPv4 messages
\* and one IPv6 message was yielded under a request of family Unspec, and
\* both cursors stand at the end of their lists.
C28_LastOfFivePolled ==
  /\ lastOp = "poll"
  /\ IsSome(mock.request)
  /\ Unwrap(mock.request).header.family = AF_UNSPEC
  /\ Len(mock.ipv4_data) = 4
  /\ mock.ipv4_index = 4
  /\ mock.ipv6_index = 1
  /\ sockOut = PollBatch(<<mock.ipv6_data[1]>>)

\* the list the mock reads for a family number
DataOfFamily(m, family) ==
  IF family = AF_INET THEN m.ipv4_data
  ELSE IF family = AF_INET6 THEN m.ipv6_data
  ELSE m.ipv4_data \o m.ipv6_data

\* C29: a request with a frame succeeds exactly when the mock has no
\* pending request, and the mock then holds its netfilter message; with a
\* request pending it fails and the mock is left as it was.  A poll without
\* a pending request yields an error and leaves the mock and the filter as
\* they were.  A poll that yields the end of the sequence leaves the mock
\* without a request and with both cursors at 0; the mock never is without
\* a request with a cursor off 0, and a poll with a request pending, both
\* cursors at 0 and a message to read yields the first message.
C29_OnePendingRequest ==
  [][/\ (lastOp' = "request" /\ IsSome(RequestMessage(Unwrap(req'))))
          => LET msg == Unwrap(RequestMessage(Unwrap(req')))
             IN  IF IsNone(mock.request)
                 THEN /\ out'.kind = "Ok"
                      /\ mock' = [mock EXCEPT !.request =
                                    Some([header |-> msg.header, inner |-> msg.inner])]
                 ELSE /\ out'.kind = "Err"
                      /\ mock' = mock
     /\ (lastOp' = "poll" /\ IsNone(mock.request))
          => /\ sockOut'.kind = "Err"
             /\ out'.kind = "Err"
             /\ mock' = mock
             /\ filter' = filter
     /\ (lastOp' = "poll" /\ sockOut'.kind = "End")
          => /\ IsSome(mock.request)
             /\ mock' = [mock EXCEPT !.request = None, !.ipv4_index = 0, !.ipv6_index = 0]
     /\ IsNone(mock'.request) => (mock'.ipv4_index = 0 /\ mock'.ipv6_index = 0)
     /\ (/\ lastOp' = "poll" /\ IsSome(mock.request)
         /\ mock.ipv4_index = 0 /\ mock.ipv6_index = 0
         /\ DataOfFamily(mock, Unwrap(mock.request).header.family) # <<>>)
          => sockOut' =
               PollBatch(<<DataOfFamily(mock, Unwrap(mock.request).header.family)[1]>>)]_vars

\* C29, its case: a request was refused while an earlier one was pending
\* with two messages already read, and the cursor stayed where it was.
C29_SecondSendRefusedMidDrain ==
  /\ lastOp = "request"
  /\ IsSome(RequestMessage(Unwrap(req)))
  /\ out.kind = "Err"
  /\ IsSome(mock.request)
  /\ mock.ipv4_index = 2
  /\ Len(mock.ipv4_data) = 4

(***************************************************************************)
(* Properties of the remembered filter (SpecCt).                           *)
(***************************************************************************)
\* C30: from a request on, while its send is awaited, whether its frame
\* was sent or the send failed, and through every poll and recv_once that
\* follows, the remembered filter
\* is the filter given with the List or the Event of the most recent
\* request, and none when that request gave none or was a Get, a Count or a
\* Stat.
C30_FilterOfLastRequest ==
  IsSome(req)
    => filter = (IF Unwrap(req).op.type \in {"List", "Event"}
                 THEN Unwrap(req).op.filter ELSE None)

\* C30, its case: the send of a List request with a filter failed, and the
\* filter of that request is remembered.
C30_FilterSetThoughSendFailed ==
  /\ lastOp = "request"
  /\ out.kind = "Err"
  /\ Unwrap(req).op.type = "List"
  /\ IsSome(Unwrap(req).op.filter)
  /\ filter = Unwrap(req).op.filter

====
